---- MODULE Spec2Model ----
(***************************************************************************)
(* Model of the quantum-optics calculators of rebor-qo:                    *)
(*   CCqo101_FWM_detuning.calcqo101_FWM_detuning                           *)
(*   CCqo102_ring_damping.calc_ring_damping / validateParameters           *)
(*   CCqo103_spectral_pump.calcqo103_spectral_pump                         *)
(* and of the command-line run of each script.                             *)
(* Every calculator is a pure function.  A specification draws the call's  *)
(* arguments in Init and one action applies the function to them.          *)
(* The run of a script additionally has a position pc, the logger level,   *)
(* the log, standard output and error, the calls made and an exit status.  *)
(*                                                                         *)
(* Numbers.  A Python/NumPy float is modelled as a pair <<n, d>>:          *)
(*   d > 0  : the finite value n/d in lowest terms (no rounding modelled), *)
(*   <<1,0>>: +inf,  <<-1,0>>: -inf,  <<0,0>>: NaN.                        *)
(* A complex number is a record [re, im] of two such finite pairs.         *)
(***************************************************************************)
EXTENDS Integers, Sequences, FiniteSets, TLC

VARIABLES fn, args, out, pc, logLevel, log, stdout, stderr, calls, status

mainVars == <<pc, logLevel, log, stdout, stderr, calls, status>>

vars == <<fn, args, out, pc, logLevel, log, stdout, stderr, calls, status>>

\* logging.WARNING, the level of a logger nobody has configured
WARNING == 30

\* no script is running: a function is called from an importing program
NotRunning ==
    /\ pc = "none"
    /\ logLevel = WARNING
    /\ log = <<>>
    /\ stdout = <<>>
    /\ stderr = <<>>
    /\ calls = <<>>
    /\ status = "none"

----------------------------------------------------------------------------
(* Bounds *)

\* generic frequencies of the detuning calls are -1..MaxFreq
MaxFreq == 1

\* list arguments of the ring-damping functions have 0..MaxLen elements
MaxLen == 3

\* generic couplings and velocities are the integers -1..MaxVal
MaxVal == 2

\* list arguments of one spectral-pump call share a length in 1..MaxPumpLen
MaxPumpLen == 2

\* generic spectral velocities and dampings are the integers 0..MaxPumpVal
MaxPumpVal == 1
\* fractions of the template calls are n / (2 * HalfSteps), |n| <= MaxFraction
HalfSteps == 4
MaxFraction == 30
\* input files have 2..MaxRows rows of data; --num-header-rows is -1..MaxHeaderRows
MaxRows == 3
MaxHeaderRows == 3

----------------------------------------------------------------------------
(* Floats: exact rationals extended with inf and NaN *)

Abs(x) == IF x < 0 THEN -x ELSE x

Sign(x) == IF x > 0 THEN 1 ELSE IF x < 0 THEN -1 ELSE 0

RECURSIVE GCD(_, _)
GCD(a, b) == IF b = 0 THEN a ELSE GCD(b, a % b)

\* n/d with d # 0, in lowest terms with a positive denominator
Norm(n, d) ==
    LET s == IF d < 0 THEN -1 ELSE 1
        g == GCD(Abs(n), Abs(d))
    IN  <<(s * n) \div g, (s * d) \div g>>

R(n) == <<n, 1>>

PosInf == <<1, 0>>
NegInf == <<-1, 0>>
NaN == <<0, 0>>

IsFinite(x) == x[2] > 0
IsNaN(x) == x = NaN
IsInf(x) == x = PosInf \/ x = NegInf

FNeg(x) == <<-x[1], x[2]>>

FAdd(x, y) ==
    IF IsNaN(x) \/ IsNaN(y) THEN NaN
    ELSE IF IsInf(x) /\ IsInf(y) THEN (IF x = y THEN x ELSE NaN)
    ELSE IF IsInf(x) THEN x
    ELSE IF IsInf(y) THEN y
    ELSE Norm(x[1] * y[2] + y[1] * x[2], x[2] * y[2])

FSub(x, y) == FAdd(x, FNeg(y))

FMul(x, y) ==
    IF IsNaN(x) \/ IsNaN(y) THEN NaN
    ELSE IF IsInf(x) \/ IsInf(y)
         THEN (IF x[1] = 0 \/ y[1] = 0 THEN NaN
               ELSE <<Sign(x[1]) * Sign(y[1]), 0>>)
    ELSE Norm(x[1] * y[1], x[2] * y[2])

\* NumPy true division: x/0 is +-inf, 0/0 is NaN (a warning, no exception)
FDiv(x, y) ==
    IF IsNaN(x) \/ IsNaN(y) THEN NaN
    ELSE IF IsInf(x) /\ IsInf(y) THEN NaN
    ELSE IF IsInf(x) THEN <<x[1] * (IF y[1] < 0 THEN -1 ELSE 1), 0>>
    ELSE IF IsInf(y) THEN R(0)
    ELSE IF y[1] = 0 THEN <<Sign(x[1]), 0>>
    ELSE Norm(x[1] * y[2], x[2] * y[1])

FLess(x, y) ==
    IF IsNaN(x) \/ IsNaN(y) THEN FALSE
    ELSE IF x = y THEN FALSE
    ELSE IF x = NegInf \/ y = PosInf THEN TRUE
    ELSE IF x = PosInf \/ y = NegInf THEN FALSE
    ELSE x[1] * y[2] < y[1] * x[2]

----------------------------------------------------------------------------
(* Python values and call outcomes *)

None == [t |-> "None"]
Num(x) == [t |-> "num", v |-> x]
List(s) == [t |-> "list", v |-> s]

Pending == [exc |-> "pending"]
Returned(v) == [exc |-> "none", val |-> v]
Raised(e, m) == [exc |-> e, msg |-> m]

----------------------------------------------------------------------------
(* NumPy arrays of dimension 0 or 1 and their broadcasting.                *)
(* [nd |-> 0, v |-> <<x>>] is a 0-d array (a scalar), [nd |-> 1, v |-> s]  *)
(* a 1-d array of shape (Len(s),).                                         *)

Max(a, b) == IF a >= b THEN a ELSE b

\* np.asarray / np.array of a Python number or list of numbers
asarray(pv) ==
    IF pv.t = "num" THEN [nd |-> 0, v |-> <<pv.v>>] ELSE [nd |-> 1, v |-> pv.v]

Size(a) == Len(a.v)

\* shape as NumPy prints it: () or (n,)
Shape(a) == IF a.nd = 0 THEN <<>> ELSE <<Size(a)>>

\* two arrays of dimension <= 1 broadcast iff their sizes agree or one is 1
Broadcastable(a, b) == Size(a) = Size(b) \/ Size(a) = 1 \/ Size(b) = 1

BSize(a, b) == IF Size(a) = 1 THEN Size(b) ELSE Size(a)

Elem(a, i) == IF Size(a) = 1 THEN a.v[1] ELSE a.v[i]

\* dimension of the result of an elementwise binary operation
BDim(a, b) == Max(a.nd, b.nd)

RECURSIVE SumSeq(_)
SumSeq(s) == IF s = <<>> THEN R(0) ELSE FAdd(s[1], SumSeq(Tail(s)))

\* np.sum over all elements
npsum(a) == SumSeq(a.v)

BroadcastError(a, b) ==
    [kind |-> "broadcast", shapes |-> <<Shape(a), Shape(b)>>]

----------------------------------------------------------------------------
(* CCqo101: four-wave-mixing detuning *)

ExampleFreqs == {100, 110, 230, 250}
Freqs == {Num(R(x)) : x \in (-1..MaxFreq) \cup ExampleFreqs}

calcqo101_FWM_detuning_SwappedDefaults(pump1, signal, pump2, idler) ==
    LET p2 == IF pump2 = None THEN signal ELSE pump2
        id == IF idler = None THEN pump1 ELSE idler
    IN  Returned(Num(FSub(FAdd(signal.v, id.v), FAdd(pump1.v, p2.v))))

calcqo101_FWM_detuning_TruthyDefaults(pump1, signal, pump2, idler) ==
    LET p2 == IF pump2 = None \/ pump2 = Num(R(0)) THEN pump1 ELSE pump2
        id == IF idler = None \/ idler = Num(R(0)) THEN signal ELSE idler
    IN  Returned(Num(FSub(FAdd(signal.v, id.v), FAdd(pump1.v, p2.v))))

calcqo101_FWM_detuning_NoParens(pump1, signal, pump2, idler) ==
    LET p2 == IF pump2 = None THEN pump1 ELSE pump2
        id == IF idler = None THEN signal ELSE idler
    IN  Returned(Num(FAdd(FSub(FAdd(signal.v, id.v), pump1.v), p2.v)))

calcqo101_FWM_detuning(pump1, signal, pump2, idler) ==
    LET p2 == IF pump2 = None THEN pump1 ELSE pump2
        id == IF idler = None THEN signal ELSE idler
    IN  Returned(Num(FSub(FAdd(signal.v, id.v), FAdd(pump1.v, p2.v))))

InitDetuning ==
    /\ fn = "calcqo101_FWM_detuning"
    /\ args \in [pump1 : Freqs, signal : Freqs,
                 pump2 : Freqs \cup {None}, idler : Freqs \cup {None}]
    /\ out = Pending
    /\ NotRunning

CallDetuning ==
    /\ fn = "calcqo101_FWM_detuning"
    /\ out = Pending
    /\ out' = calcqo101_FWM_detuning(args.pump1, args.signal, args.pump2, args.idler)
    /\ UNCHANGED <<fn, args>>
    /\ UNCHANGED mainVars

NextDetuning == CallDetuning

SpecDetuning == InitDetuning /\ [][NextDetuning]_vars

DetuningDone == fn = "calcqo101_FWM_detuning" /\ out # Pending

\* C1: the detuning call never raises and returns
\* (signal + idler') - (pump1 + pump2'), idler' being idler when supplied and
\* signal otherwise, pump2' being pump2 when supplied and pump1 otherwise; a
\* supplied 0 counts as supplied.
C1_DetuningFormula ==
    DetuningDone =>
        /\ out.exc = "none"
        /\ \E i, p \in Freqs :
              /\ i = (IF args.idler.t = "None" THEN args.signal ELSE args.idler)
              /\ p = (IF args.pump2.t = "None" THEN args.pump1 ELSE args.pump2)
              /\ out.val.t = "num"
              /\ FAdd(out.val.v, FAdd(args.pump1.v, p.v)) = FAdd(args.signal.v, i.v)

\* a call with pump2 = 0 supplied and idler omitted, whose pump1 is not 0
C1_Witness ==
    /\ DetuningDone
    /\ args.pump2 = Num(R(0))
    /\ args.idler = None
    /\ args.pump1 = Num(R(100))
    /\ out = Returned(Num(FSub(FAdd(args.signal.v, args.signal.v), R(100))))

DetuningArgs(p1, s, p2, i) == [pump1 |-> p1, signal |-> s, pump2 |-> p2, idler |-> i]

\* C2 as stated: detuning(pump1=100, signal=110) with pump2 and idler
\* omitted returns 10.
C2_DetuningDefaultsIs10 ==
    (DetuningDone /\ args = DetuningArgs(Num(R(100)), Num(R(110)), None, None))
        => out = Returned(Num(R(10)))

\* C2 amended: detuning(pump1=100, signal=110) with pump2 and idler omitted
\* returns 20, i.e. (110 + 110) - (100 + 100).
C2_DetuningDefaultsIs20 ==
    (DetuningDone /\ args = DetuningArgs(Num(R(100)), Num(R(110)), None, None))
        => out = Returned(Num(R(20)))

C2_Witness ==
    /\ DetuningDone
    /\ args = DetuningArgs(Num(R(100)), Num(R(110)), None, None)
    /\ out.exc = "none"

\* C3 as stated: detuning(100, 110, pump2=230, idler=250) returns 70.
C3_DetuningExplicitIs70 ==
    (DetuningDone
     /\ args = DetuningArgs(Num(R(100)), Num(R(110)), Num(R(230)), Num(R(250))))
        => out = Returned(Num(R(70)))

\* C3 amended: detuning(100, 110, pump2=230, idler=250) returns 30, i.e.
\* (110 + 250) - (100 + 230).
C3_DetuningExplicitIs30 ==
    (DetuningDone
     /\ args = DetuningArgs(Num(R(100)), Num(R(110)), Num(R(230)), Num(R(250))))
        => out = Returned(Num(R(30)))

C3_Witness ==
    /\ DetuningDone
    /\ args = DetuningArgs(Num(R(100)), Num(R(110)), Num(R(230)), Num(R(250)))
    /\ out.exc = "none"

----------------------------------------------------------------------------
(* CCqo102: ring damping calculator *)

RECURSIVE SeqsUpTo(_, _)
SeqsUpTo(S, n) ==
    IF n = 0 THEN {<<>>}
    ELSE LET shorter == SeqsUpTo(S, n - 1)
         IN  shorter \cup {Append(q, x) : q \in {r \in shorter : Len(r) = n - 1}, x \in S}

RingVals == {R(x) : x \in -1..MaxVal}
RingScalars == {Num(x) : x \in RingVals}
RingLists == {List(q) : q \in SeqsUpTo(RingVals, MaxLen)}
RingArgs == RingScalars \cup RingLists

\* the calls of the doctests and of test_CCqo102_ring_damping.py
RingExamples ==
    { [couplings |-> c, velocities |-> v] :
        c \in {Num(R(12)), List(<<R(12), R(20)>>)},
        v \in {Num(R(3)), Num(R(4)), Num(R(2)), List(<<R(3), R(4)>>)} }

FAbs(x) == <<Abs(x[1]), x[2]>>
FSquare(x) == FMul(x, x)
FTwice(x) == FMul(R(2), x)
FAbsSquared(x) == FSquare(FAbs(x))

\* np.absolute(a)**2, elementwise
AbsSquaredArray(a) == [nd |-> a.nd, v |-> [i \in 1..Size(a) |-> FAbsSquared(a.v[i])]]

\* 2.0 * a, elementwise
TwiceArray(a) == [nd |-> a.nd, v |-> [i \in 1..Size(a) |-> FTwice(a.v[i])]]

\* a / b, elementwise with broadcasting
DivideArrays(a, b) ==
    [nd |-> BDim(a, b), v |-> [i \in 1..BSize(a, b) |-> FDiv(Elem(a, i), Elem(b, i))]]

\* a 0-d result of a ufunc is a scalar, a 1-d result an array
RingResult(damping, path_losses) == Returned(<<damping, path_losses>>)

calc_ring_damping_NoFactorTwo(couplings, velocities) ==
    LET c == asarray(couplings)
        v == asarray(velocities)
        path_losses == DivideArrays(AbsSquaredArray(c), v)
    IN  IF ~Broadcastable(c, v)
        THEN Raised("ValueError", <<BroadcastError(c, v)>>)
        ELSE RingResult(npsum(path_losses), path_losses)

calc_ring_damping_FirstVelocity(couplings, velocities) ==
    LET c == asarray(couplings)
        v == asarray(velocities)
        v1 == [nd |-> 0, v |-> <<v.v[1]>>]
        path_losses == DivideArrays(AbsSquaredArray(c), TwiceArray(v1))
    IN  IF ~Broadcastable(c, v) \/ Size(v) = 0
        THEN Raised("ValueError", <<BroadcastError(c, v)>>)
        ELSE RingResult(npsum(path_losses), path_losses)

calc_ring_damping_GuardZero(couplings, velocities) ==
    LET c == asarray(couplings)
        v == asarray(velocities)
        path_losses == DivideArrays(AbsSquaredArray(c), TwiceArray(v))
    IN  IF ~Broadcastable(c, v)
        THEN Raised("ValueError", <<BroadcastError(c, v)>>)
        ELSE IF \E i \in 1..Size(v) : v.v[i] = R(0)
        THEN Raised("ValueError", <<[kind |-> "zero velocity"]>>)
        ELSE RingResult(npsum(path_losses), path_losses)

\* a calculator that divides the coupling itself, neither absolute nor squared
calc_ring_damping_NoAbsSquare(couplings, velocities) ==
    LET c == asarray(couplings)
        v == asarray(velocities)
        path_losses == DivideArrays(c, TwiceArray(v))
    IN  IF ~Broadcastable(c, v)
        THEN Raised("ValueError", <<BroadcastError(c, v)>>)
        ELSE RingResult(npsum(path_losses), path_losses)

calc_ring_damping(couplings, velocities) ==
    LET c == asarray(couplings)
        v == asarray(velocities)
        path_losses == DivideArrays(AbsSquaredArray(c), TwiceArray(v))
    IN  IF ~Broadcastable(c, v)
        THEN Raised("ValueError", <<BroadcastError(c, v)>>)
        ELSE RingResult(npsum(path_losses), path_losses)

InitRingCalc ==
    /\ fn = "calc_ring_damping"
    /\ args \in [couplings : RingArgs, velocities : RingArgs] \cup RingExamples
    /\ out = Pending
    /\ NotRunning

CallRingDamping ==
    /\ fn = "calc_ring_damping"
    /\ out = Pending
    /\ out' = calc_ring_damping(args.couplings, args.velocities)
    /\ UNCHANGED <<fn, args>>
    /\ UNCHANGED mainVars

NextRingCalc == CallRingDamping

SpecRingCalc == InitRingCalc /\ [][NextRingCalc]_vars

RingCalcDone == fn = "calc_ring_damping" /\ out # Pending

RingReturned == RingCalcDone /\ out.exc = "none"
damping == out.val[1]
path_losses == out.val[2]

\* running total of the first n channel losses, taken from the returned array
RECURSIVE PartialSum(_, _)
PartialSum(s, n) == IF n = 0 THEN R(0) ELSE FAdd(PartialSum(s, n - 1), s[n])

\* loss * (2 * velocity) = coupling^2, for a non-zero velocity
IsChannelLoss(loss, coupling, velocity) ==
    /\ IsFinite(loss)
    /\ FMul(loss, FMul(R(2), velocity)) = FMul(coupling, coupling)

RingCall(c, v) == [couplings |-> c, velocities |-> v]

\* C4: for two sequences of the same length n >= 1 with all velocities
\* non-zero the call returns (damping, path_losses), path_losses an array of
\* length n with path_losses[i] = |couplings[i]|^2 / (2 * velocities[i]) in
\* input order and damping their sum; for two scalars with a non-zero
\* velocity damping equals path_losses; [12,20],[3,4] gives 74 and [24,50];
\* 12,3 gives 24 and 24.
C4_SameLengthLosses ==
    RingCalcDone =>
        LET c == args.couplings
            v == args.velocities
        IN  /\ (/\ c.t = "list" /\ v.t = "list"
                /\ Len(c.v) = Len(v.v) /\ Len(c.v) >= 1
                /\ \A i \in 1..Len(v.v) : v.v[i] # R(0))
               => /\ out.exc = "none"
                  /\ path_losses.nd = 1
                  /\ Len(path_losses.v) = Len(c.v)
                  /\ \A i \in 1..Len(c.v) :
                        IsChannelLoss(path_losses.v[i], c.v[i], v.v[i])
                  /\ damping = PartialSum(path_losses.v, Len(c.v))
            /\ (c.t = "num" /\ v.t = "num" /\ v.v # R(0))
               => /\ out.exc = "none"
                  /\ path_losses.nd = 0
                  /\ IsChannelLoss(path_losses.v[1], c.v, v.v)
                  /\ damping = path_losses.v[1]
            /\ args = RingCall(List(<<R(12), R(20)>>), List(<<R(3), R(4)>>))
               => out = Returned(<<R(74), [nd |-> 1, v |-> <<R(24), R(50)>>]>>)
            /\ args = RingCall(Num(R(12)), Num(R(3)))
               => out = Returned(<<R(24), [nd |-> 0, v |-> <<R(24)>>]>>)

\* two lists of the same length >= 2 with different non-zero velocities and
\* different couplings, and a result whose channels differ
C4_Witness ==
    /\ RingReturned
    /\ args.couplings.t = "list" /\ args.velocities.t = "list"
    /\ Len(args.couplings.v) = 3 /\ Len(args.velocities.v) = 3
    /\ \A i \in 1..3 : args.velocities.v[i] # R(0)
    /\ args.velocities.v[1] # args.velocities.v[2]
    /\ args.couplings.v[2] # args.couplings.v[3]
    /\ path_losses.v[1] # path_losses.v[2]
    /\ path_losses.v[2] # path_losses.v[3]
    /\ damping # R(0)

\* C5: when exactly one of couplings and velocities is a scalar and the other
\* a sequence of length n, the scalar applies to every channel: path_losses
\* has length n, path_losses[i] = |c_i|^2 / (2 * v_i) with the scalar side the
\* same for every i, and damping is their sum; 12 with [3,4] gives [24,18]
\* and 42; [12,20] with 4 gives [18,50] and 68.
C5_ScalarBroadcast ==
    RingCalcDone =>
        LET c == args.couplings
            v == args.velocities
        IN  /\ (c.t = "num" /\ v.t = "list")
               => /\ out.exc = "none"
                  /\ path_losses.nd = 1
                  /\ Len(path_losses.v) = Len(v.v)
                  /\ \A i \in 1..Len(v.v) :
                        v.v[i] # R(0) => IsChannelLoss(path_losses.v[i], c.v, v.v[i])
                  /\ damping = PartialSum(path_losses.v, Len(v.v))
            /\ (c.t = "list" /\ v.t = "num")
               => /\ out.exc = "none"
                  /\ path_losses.nd = 1
                  /\ Len(path_losses.v) = Len(c.v)
                  /\ \A i \in 1..Len(c.v) :
                        v.v # R(0) => IsChannelLoss(path_losses.v[i], c.v[i], v.v)
                  /\ damping = PartialSum(path_losses.v, Len(c.v))
            /\ args = RingCall(Num(R(12)), List(<<R(3), R(4)>>))
               => out = Returned(<<R(42), [nd |-> 1, v |-> <<R(24), R(18)>>]>>)
            /\ args = RingCall(List(<<R(12), R(20)>>), Num(R(4)))
               => out = Returned(<<R(68), [nd |-> 1, v |-> <<R(18), R(50)>>]>>)

\* a scalar coupling applied to three channels of different velocity
C5_Witness ==
    /\ RingReturned
    /\ args.couplings.t = "num" /\ args.couplings.v # R(0)
    /\ args.velocities.t = "list" /\ Len(args.velocities.v) = 3
    /\ \A i \in 1..3 : args.velocities.v[i] # R(0)
    /\ args.velocities.v[1] # args.velocities.v[3]
    /\ Len(path_losses.v) = 3
    /\ path_losses.v[1] # path_losses.v[3]

\* a scalar velocity applied to the two couplings of the unit test
C5_WitnessScalarVelocity ==
    /\ RingReturned
    /\ args = RingCall(List(<<R(12), R(20)>>), Num(R(4)))
    /\ damping = R(68)

\* C8: a velocity that is exactly 0 does not make calc_ring_damping raise:
\* the call returns, the loss of every channel with velocity 0 is infinite
\* (NaN when its coupling is 0 too), and with such a channel the total
\* damping is not finite.  The only raise is NumPy's broadcast error for
\* incompatible shapes, whatever the velocities.
C8_ZeroVelocityPropagates ==
    RingCalcDone =>
        LET c == asarray(args.couplings)
            v == asarray(args.velocities)
        IN  /\ out.exc = "none" <=> Broadcastable(c, v)
            /\ out.exc = "none" =>
                 /\ \A i \in 1..Len(path_losses.v) :
                        Elem(v, i) = R(0) =>
                            /\ Elem(c, i) # R(0) => IsInf(path_losses.v[i])
                            /\ Elem(c, i) = R(0) => IsNaN(path_losses.v[i])
                 /\ (\E i \in 1..Len(path_losses.v) : Elem(v, i) = R(0))
                        => ~IsFinite(damping)

\* a returned call with one infinite channel, one NaN channel and a finite one
C8_Witness ==
    /\ RingReturned
    /\ Len(path_losses.v) = 3
    /\ \E i, j, k \in 1..3 :
          /\ IsInf(path_losses.v[i])
          /\ IsNaN(path_losses.v[j])
          /\ IsFinite(path_losses.v[k])
    /\ ~IsFinite(damping)

----------------------------------------------------------------------------
(* Complex numbers: [re, im] with finite components *)

C(re, im) == [re |-> R(re), im |-> R(im)]

CZero == C(0, 0)
MinusJ == C(0, -1)

CAdd(x, y) == [re |-> FAdd(x.re, y.re), im |-> FAdd(x.im, y.im)]

CMul(x, y) ==
    [re |-> FSub(FMul(x.re, y.re), FMul(x.im, y.im)),
     im |-> FAdd(FMul(x.re, y.im), FMul(x.im, y.re))]

CConj(x) == [re |-> x.re, im |-> FNeg(x.im)]

CNormSq(x) == FAdd(FMul(x.re, x.re), FMul(x.im, x.im))

\* x / y for y # 0
CDiv(x, y) ==
    LET n == CMul(x, CConj(y))
        m == CNormSq(y)
    IN  [re |-> FDiv(n.re, m), im |-> FDiv(n.im, m)]

----------------------------------------------------------------------------
(* CCqo103: spectral pump calculator *)

TimesMinusJ(x) == CMul(MinusJ, x)

\* -1j * a, elementwise
TimesMinusJArray(a) == [nd |-> a.nd, v |-> [i \in 1..Size(a) |-> TimesMinusJ(a.v[i])]]

\* np.conj(a)
ConjArray(a) == [nd |-> a.nd, v |-> [i \in 1..Size(a) |-> CConj(a.v[i])]]

\* a * b, a + b and a / b on complex arrays, elementwise with broadcasting
CMulArrays(a, b) ==
    [nd |-> BDim(a, b), v |-> [i \in 1..BSize(a, b) |-> CMul(Elem(a, i), Elem(b, i))]]

CAddArrays(a, b) ==
    [nd |-> BDim(a, b), v |-> [i \in 1..BSize(a, b) |-> CAdd(Elem(a, i), Elem(b, i))]]

CDivArrays(a, b) ==
    [nd |-> BDim(a, b), v |-> [i \in 1..BSize(a, b) |-> CDiv(Elem(a, i), Elem(b, i))]]

ZeroDivisionMsg == <<[kind |-> "Division by zero for -1J*wavevec*velocity+damping"]>>

calcqo103_spectral_pump_SwappedReturn(wavevec, couplings_pump, velocities_pump, ring_damping_pump, pump_input) ==
    LET k == asarray(wavevec)
        g == asarray(couplings_pump)
        v == asarray(velocities_pump)
        G == asarray(ring_damping_pump)
        a == asarray(pump_input)
        jk == TimesMinusJArray(k)
        jkv == CMulArrays(jk, v)
        denom == CAddArrays(jkv, G)
        jg == TimesMinusJArray(ConjArray(g))
        rr == CDivArrays(jg, denom)
        b == CMulArrays(rr, a)
    IN  IF ~Broadcastable(jk, v) THEN Raised("ValueError", <<BroadcastError(jk, v)>>)
        ELSE IF ~Broadcastable(jkv, G) THEN Raised("ValueError", <<BroadcastError(jkv, G)>>)
        ELSE IF \E i \in 1..Size(denom) : denom.v[i] = CZero
             THEN Raised("ValueError", ZeroDivisionMsg)
        ELSE IF ~Broadcastable(jg, denom) THEN Raised("ValueError", <<BroadcastError(jg, denom)>>)
        ELSE IF ~Broadcastable(rr, a) THEN Raised("ValueError", <<BroadcastError(rr, a)>>)
        ELSE Returned(<<rr, b>>)

calcqo103_spectral_pump_NoConj(wavevec, couplings_pump, velocities_pump, ring_damping_pump, pump_input) ==
    LET k == asarray(wavevec)
        g == asarray(couplings_pump)
        v == asarray(velocities_pump)
        G == asarray(ring_damping_pump)
        a == asarray(pump_input)
        jk == TimesMinusJArray(k)
        jkv == CMulArrays(jk, v)
        denom == CAddArrays(jkv, G)
        jg == TimesMinusJArray(g)
        rr == CDivArrays(jg, denom)
        b == CMulArrays(rr, a)
    IN  IF ~Broadcastable(jk, v) THEN Raised("ValueError", <<BroadcastError(jk, v)>>)
        ELSE IF ~Broadcastable(jkv, G) THEN Raised("ValueError", <<BroadcastError(jkv, G)>>)
        ELSE IF \E i \in 1..Size(denom) : denom.v[i] = CZero
             THEN Raised("ValueError", ZeroDivisionMsg)
        ELSE IF ~Broadcastable(jg, denom) THEN Raised("ValueError", <<BroadcastError(jg, denom)>>)
        ELSE IF ~Broadcastable(rr, a) THEN Raised("ValueError", <<BroadcastError(rr, a)>>)
        ELSE Returned(<<b, rr>>)

\* the zero test applied to the first element only (np.any dropped)
calcqo103_spectral_pump_FirstElementCheck(wavevec, couplings_pump, velocities_pump, ring_damping_pump, pump_input) ==
    LET k == asarray(wavevec)
        g == asarray(couplings_pump)
        v == asarray(velocities_pump)
        G == asarray(ring_damping_pump)
        a == asarray(pump_input)
        jk == TimesMinusJArray(k)
        jkv == CMulArrays(jk, v)
        denom == CAddArrays(jkv, G)
        jg == TimesMinusJArray(ConjArray(g))
        rr == CDivArrays(jg, denom)
        b == CMulArrays(rr, a)
    IN  IF ~Broadcastable(jk, v) THEN Raised("ValueError", <<BroadcastError(jk, v)>>)
        ELSE IF ~Broadcastable(jkv, G) THEN Raised("ValueError", <<BroadcastError(jkv, G)>>)
        ELSE IF Size(denom) > 0 /\ denom.v[1] = CZero
             THEN Raised("ValueError", ZeroDivisionMsg)
        ELSE IF ~Broadcastable(jg, denom) THEN Raised("ValueError", <<BroadcastError(jg, denom)>>)
        ELSE IF ~Broadcastable(rr, a) THEN Raised("ValueError", <<BroadcastError(rr, a)>>)
        ELSE Returned(<<b, rr>>)

\* a calculator that tests the damping alone for zero
calcqo103_spectral_pump_DampingOnlyCheck(wavevec, couplings_pump, velocities_pump, ring_damping_pump, pump_input) ==
    LET k == asarray(wavevec)
        g == asarray(couplings_pump)
        v == asarray(velocities_pump)
        G == asarray(ring_damping_pump)
        a == asarray(pump_input)
        jk == TimesMinusJArray(k)
        jkv == CMulArrays(jk, v)
        denom == CAddArrays(jkv, G)
        jg == TimesMinusJArray(ConjArray(g))
        rr == CDivArrays(jg, denom)
        b == CMulArrays(rr, a)
    IN  IF ~Broadcastable(jk, v) THEN Raised("ValueError", <<BroadcastError(jk, v)>>)
        ELSE IF ~Broadcastable(jkv, G) THEN Raised("ValueError", <<BroadcastError(jkv, G)>>)
        ELSE IF \E i \in 1..Size(G) : G.v[i] = CZero
             THEN Raised("ValueError", ZeroDivisionMsg)
        ELSE IF ~Broadcastable(jg, denom) THEN Raised("ValueError", <<BroadcastError(jg, denom)>>)
        ELSE IF ~Broadcastable(rr, a) THEN Raised("ValueError", <<BroadcastError(rr, a)>>)
        ELSE Returned(<<b, rr>>)

calcqo103_spectral_pump(wavevec, couplings_pump, velocities_pump, ring_damping_pump, pump_input) ==
    LET k == asarray(wavevec)
        g == asarray(couplings_pump)
        v == asarray(velocities_pump)
        G == asarray(ring_damping_pump)
        a == asarray(pump_input)
        jk == TimesMinusJArray(k)
        jkv == CMulArrays(jk, v)
        denom == CAddArrays(jkv, G)
        jg == TimesMinusJArray(ConjArray(g))
        rr == CDivArrays(jg, denom)
        b == CMulArrays(rr, a)
    IN  IF ~Broadcastable(jk, v) THEN Raised("ValueError", <<BroadcastError(jk, v)>>)
        ELSE IF ~Broadcastable(jkv, G) THEN Raised("ValueError", <<BroadcastError(jkv, G)>>)
        ELSE IF \E i \in 1..Size(denom) : denom.v[i] = CZero
             THEN Raised("ValueError", ZeroDivisionMsg)
        ELSE IF ~Broadcastable(jg, denom) THEN Raised("ValueError", <<BroadcastError(jg, denom)>>)
        ELSE IF ~Broadcastable(rr, a) THEN Raised("ValueError", <<BroadcastError(rr, a)>>)
        ELSE Returned(<<b, rr>>)

\* sample values: a real and an imaginary wavevector (the denominator is
\* G - j*v for k = 1 and G - v for k = -j), real velocities and dampings, real
\* and complex couplings and pump inputs
WavevecVals == {C(1, 0), C(0, -1)}
VelocityVals == {C(x, 0) : x \in 0..MaxPumpVal}
DampingVals == {C(x, 0) : x \in 0..MaxPumpVal}
CouplingVals == <<C(1, 1), C(2, 0)>>
PumpInputVals == <<C(5, 0), C(0, 1)>>

\* a scalar over S or a list of n elements of S
ScalarOrList(S, n) == {Num(x) : x \in S} \cup {List(q) : q \in [1..n -> S]}

\* a scalar out of the samples or the list of n elements that cycles through them
ScalarOrCycle(samples, n) ==
    {Num(samples[i]) : i \in 1..Len(samples)}
        \cup {List([i \in 1..n |-> samples[((i - 1) % Len(samples)) + 1]])}

PumpCall(k, g, v, G, a) ==
    [wavevec |-> k, couplings_pump |-> g, velocities_pump |-> v,
     ring_damping_pump |-> G, pump_input |-> a]

\* the calls of the doctest: (1,2,3,4,5) and ([1,6],[2,7],[3,8],[4,9],[5,10])
PumpExamples ==
    { PumpCall(Num(C(1, 0)), Num(C(2, 0)), Num(C(3, 0)), Num(C(4, 0)), Num(C(5, 0))),
      PumpCall(List(<<C(1, 0), C(6, 0)>>), List(<<C(2, 0), C(7, 0)>>),
               List(<<C(3, 0), C(8, 0)>>), List(<<C(4, 0), C(9, 0)>>),
               List(<<C(5, 0), C(10, 0)>>)) }

\* calls whose couplings (three elements) do not broadcast against the
\* two-element denominator: one with a zero denominator, one without
PumpMismatches ==
    { PumpCall(List(<<C(1, 0), C(1, 0)>>), List(<<C(2, 0), C(2, 0), C(2, 0)>>),
               List(<<C(0, 0), C(1, 0)>>), List(<<C(0, 0), C(1, 0)>>), Num(C(5, 0))),
      PumpCall(List(<<C(1, 0), C(1, 0)>>), List(<<C(2, 0), C(2, 0), C(2, 0)>>),
               List(<<C(1, 0), C(1, 0)>>), List(<<C(1, 0), C(1, 0)>>), Num(C(5, 0))) }

\* real-valued calls with a wavevector 0: the denominator is the damping
PumpZeroWavevecs ==
    { PumpCall(k, Num(C(2, 0)), v, G, Num(C(5, 0))) :
        k \in {Num(C(0, 0)), List(<<C(0, 0), C(1, 0)>>)},
        v \in {Num(C(1, 0)), List(<<C(1, 0), C(0, 0)>>)},
        G \in {Num(C(0, 0)), Num(C(1, 0)),
               List(<<C(1, 0), C(0, 0)>>), List(<<C(0, 0), C(1, 0)>>)} }

InitPump ==
    /\ fn = "calcqo103_spectral_pump"
    /\ \/ \E n \in 1..MaxPumpLen :
            args \in [wavevec : ScalarOrList(WavevecVals, n),
                      couplings_pump : ScalarOrCycle(CouplingVals, n),
                      velocities_pump : ScalarOrList(VelocityVals, n),
                      ring_damping_pump : ScalarOrList(DampingVals, n),
                      pump_input : ScalarOrCycle(PumpInputVals, n)]
       \/ args \in PumpExamples \cup PumpMismatches \cup PumpZeroWavevecs
    /\ out = Pending
    /\ NotRunning

CallSpectralPump ==
    /\ fn = "calcqo103_spectral_pump"
    /\ out = Pending
    /\ out' = calcqo103_spectral_pump(args.wavevec, args.couplings_pump,
                                      args.velocities_pump, args.ring_damping_pump,
                                      args.pump_input)
    /\ UNCHANGED <<fn, args>>
    /\ UNCHANGED mainVars

NextPump == CallSpectralPump

SpecPump == InitPump /\ [][NextPump]_vars

PumpDone == fn = "calcqo103_spectral_pump" /\ out # Pending

PumpReturned == PumpDone /\ out.exc = "none"
pump_ring == out.val[1]
ring_response == out.val[2]

\* the array value the call was given for a parameter
PumpArg(name) == asarray(args[name])

\* the number of elements the five arguments broadcast to
PumpSize ==
    LET sizes == {Size(PumpArg(name)) : name \in DOMAIN args}
    IN  IF sizes = {1} THEN 1 ELSE CHOOSE n \in sizes \ {1} : TRUE

PumpCompatible == Cardinality({Size(PumpArg(name)) : name \in DOMAIN args} \ {1}) <= 1

\* d = -j*k*v + G at element i
Denominator(i) ==
    CAdd(CMul(CMul(MinusJ, Elem(PumpArg("wavevec"), i)),
              Elem(PumpArg("velocities_pump"), i)),
         Elem(PumpArg("ring_damping_pump"), i))

\* the sizes of wavevec, velocities and damping, and what they broadcast to
DenominatorSizes ==
    {Size(PumpArg(name)) : name \in {"wavevec", "velocities_pump", "ring_damping_pump"}}

DenominatorCompatible == Cardinality(DenominatorSizes \ {1}) <= 1

DenominatorSize ==
    IF DenominatorSizes = {1} THEN 1 ELSE CHOOSE n \in DenominatorSizes \ {1} : TRUE

SomeDenominatorZero == \E i \in 1..DenominatorSize : Denominator(i) = CZero

\* C6: for elementwise-compatible inputs whose denominators
\* d = -j*k*v + G are all non-zero the call returns (pump_ring, ring_response)
\* in that order with, at every element, ring_response * d = -j*conj(g) and
\* pump_ring = ring_response * a; k=1, g=2, v=3, G=4, a=5 gives
\* pump_ring = 1.2 - 1.6j and ring_response = 0.24 - 0.32j.
C6_SpectralPumpFormula ==
    PumpDone =>
        /\ (PumpCompatible /\ ~SomeDenominatorZero) =>
              /\ out.exc = "none"
              /\ \A i \in 1..PumpSize :
                    /\ CMul(Elem(ring_response, i), Denominator(i))
                         = CMul(MinusJ, CConj(Elem(PumpArg("couplings_pump"), i)))
                    /\ Elem(pump_ring, i)
                         = CMul(Elem(ring_response, i), Elem(PumpArg("pump_input"), i))
        /\ args = PumpCall(Num(C(1, 0)), Num(C(2, 0)), Num(C(3, 0)), Num(C(4, 0)), Num(C(5, 0)))
              => out = Returned(<<[nd |-> 0, v |-> <<[re |-> <<6, 5>>, im |-> <<-8, 5>>]>>],
                                  [nd |-> 0, v |-> <<[re |-> <<6, 25>>, im |-> <<-8, 25>>]>>]>>)

\* a returned call on two-element lists with a complex coupling, a complex
\* denominator and a ring response that differs from the pump in the ring
C6_Witness ==
    /\ PumpReturned
    /\ PumpSize = 2
    /\ args.couplings_pump.t = "list"
    /\ args.couplings_pump.v[1] = C(1, 1)
    /\ args.couplings_pump.v[2] = C(2, 0)
    /\ args.pump_input.t = "list"
    /\ Denominator(1) = C(1, -1)
    /\ ring_response.v[1] # ring_response.v[2]
    /\ pump_ring.v[1] # ring_response.v[1]

----------------------------------------------------------------------------
(* CCqo102: validateParameters(couplings=..., velocities=...)              *)
(* A keyword that is not passed reads as None.  The message of the raised  *)
(* ValueError is modelled as the sequence of its violation blocks.         *)

\* Python truth value of None, a number (taken as an int) or a list
Truthy(pv) ==
    IF pv.t = "None" THEN FALSE
    ELSE IF pv.t = "num" THEN pv.v # R(0)
    ELSE pv.v # <<>>

\* [x] for a non-list, then np.asarray: always a 1-d array
AsList1d(pv) == [nd |-> 1, v |-> IF pv.t = "list" THEN pv.v ELSE <<pv.v>>]

\* the value held by _couplings / _velocities after its block: a 1-d array
\* when the block ran, the untouched Python value otherwise
Held(pv) == IF Truthy(pv) THEN [py |-> FALSE, a |-> AsList1d(pv)]
            ELSE [py |-> TRUE, p |-> pv]

\* np.where(a < 0)[0]: the 0-based indices of the negative elements, ascending
RECURSIVE NegativeIndices(_, _)
NegativeIndices(s, n) ==
    IF n = 0 THEN <<>>
    ELSE LET before == NegativeIndices(s, n - 1)
         IN  IF FLess(s[n], R(0)) THEN Append(before, n - 1) ELSE before

\* a[badIdx]: the elements at those indices
Take(s, idx) == [i \in 1..Len(idx) |-> s[idx[i] + 1]]

RangeBlock(name, a) ==
    LET badIdx == NegativeIndices(a.v, Size(a))
    IN  [kind |-> "range", name |-> name,
         indices |-> badIdx, values |-> Take(a.v, badIdx)]

\* the block appended for one parameter, if any
RangeBlocks(name, pv) ==
    IF Truthy(pv) /\ \E i \in 1..Size(AsList1d(pv)) : FLess(AsList1d(pv).v[i], R(0))
    THEN <<RangeBlock(name, AsList1d(pv))>>
    ELSE <<>>

ShapeBlock(c, v) ==
    [kind |-> "shape", name |-> "couplings, velocities",
     couplings_shape |-> Shape(c), velocities_shape |-> Shape(v)]

\* outcome of the statement _couplings * _velocities and of its handler:
\* "ok", "mismatch" (ValueError caught, both shapes formatted),
\* "AttributeError" (ValueError caught, .shape read on a Python list) or
\* "TypeError" (list * list, not caught)
ProductOutcome(hc, hv) ==
    IF ~hc.py /\ ~hv.py
    THEN (IF Broadcastable(hc.a, hv.a) THEN "ok" ELSE "mismatch")
    ELSE IF hc.py /\ hv.py
    THEN (IF hc.p.t = "list" /\ hv.p.t = "list" THEN "TypeError" ELSE "ok")
    ELSE LET raw == IF hc.py THEN hc.p ELSE hv.p
             arr == IF hc.py THEN hv.a ELSE hc.a
         IN  IF raw.t = "num" THEN "ok"
             ELSE IF Broadcastable(asarray(raw), arr) THEN "ok"
             ELSE "AttributeError"

\* the final block of the ring validator: with both flags set the ValueError
\* carries the warning text, then the error text
RingRaise(r) ==
    IF r.err /\ r.wrn THEN Raised("ValueError", r.wMsg \o r.eMsg)
    ELSE IF r.err THEN Raised("ValueError", r.eMsg)
    ELSE IF r.wrn THEN Raised("RuntimeWarning", r.wMsg)
    ELSE Returned(None)

\* a validator that stops at the first violation it finds
validateRingParameters_FirstOnly(couplings, velocities) ==
    LET hc == Held(couplings)
        hv == Held(velocities)
        rangeMsg == RangeBlocks("couplings", couplings) \o RangeBlocks("velocities", velocities)
        both == couplings.t # "None" /\ velocities.t # "None"
        product == IF both THEN ProductOutcome(hc, hv) ELSE "ok"
    IN  IF rangeMsg # <<>> THEN Raised("ValueError", <<rangeMsg[1]>>)
        ELSE IF product \in {"AttributeError", "TypeError"} THEN Raised(product, <<>>)
        ELSE IF product = "mismatch" THEN Raised("ValueError", <<ShapeBlock(hc.a, hv.a)>>)
        ELSE Returned(None)

\* a validator that checks the ranges only, not the shapes
validateRingParameters_NoShapeCheck(couplings, velocities) ==
    LET rangeMsg == RangeBlocks("couplings", couplings) \o RangeBlocks("velocities", velocities)
    IN  RingRaise([err |-> rangeMsg # <<>>, eMsg |-> rangeMsg, wrn |-> FALSE, wMsg |-> <<>>])

validateRingParameters(couplings, velocities) ==
    LET hc == Held(couplings)
        hv == Held(velocities)
        rangeMsg == RangeBlocks("couplings", couplings) \o RangeBlocks("velocities", velocities)
        both == couplings.t # "None" /\ velocities.t # "None"
        product == IF both THEN ProductOutcome(hc, hv) ELSE "ok"
        eMsg == IF product = "mismatch"
                THEN Append(rangeMsg, ShapeBlock(hc.a, hv.a))
                ELSE rangeMsg
    IN  IF product \in {"AttributeError", "TypeError"} THEN Raised(product, <<>>)
        ELSE RingRaise([err |-> eMsg # <<>>, eMsg |-> eMsg, wrn |-> FALSE, wMsg |-> <<>>])

RingValidateArgs == RingArgs \cup {None}

\* the calls of the validateParameters doctests
RingValidateExamples ==
    { [couplings |-> List(<<R(1), R(2), R(3)>>), velocities |-> None],
      [couplings |-> List(<<R(1), R(2), R(3)>>), velocities |-> List(<<R(4), R(5), R(6)>>)],
      [couplings |-> List(<<R(1), R(2), R(3)>>), velocities |-> Num(R(6))],
      [couplings |-> List(<<R(-1), R(2), R(-3)>>), velocities |-> List(<<R(-9), R(-8), R(7)>>)],
      [couplings |-> List(<<R(1), R(2), R(3)>>), velocities |-> List(<<R(4), R(5), R(6), R(7)>>)],
      [couplings |-> List(<<R(-1), R(2), R(-3)>>), velocities |-> None],
      [couplings |-> List(<<R(1), R(2), R(3)>>), velocities |-> List(<<R(1), R(2), R(3), R(4)>>)] }

InitRingValidate ==
    /\ fn = "validateParameters"
    /\ args \in [couplings : RingValidateArgs, velocities : RingValidateArgs]
                  \cup RingValidateExamples
    /\ out = Pending
    /\ NotRunning

CallRingValidate ==
    /\ fn = "validateParameters"
    /\ out = Pending
    /\ out' = validateRingParameters(args.couplings, args.velocities)
    /\ UNCHANGED <<fn, args>>
    /\ UNCHANGED mainVars

NextRingValidate == CallRingValidate

SpecRingValidate == InitRingValidate /\ [][NextRingValidate]_vars

RingValidateDone == fn = "validateParameters" /\ out # Pending

\* the elements of a scalar or list argument, a scalar counting as index 0
Elements(pv) == IF pv.t = "list" THEN pv.v ELSE <<pv.v>>

HasNegative(pv) ==
    pv.t # "None" /\ \E i \in 1..Len(Elements(pv)) : FLess(Elements(pv)[i], R(0))

\* the blocks of the raised message that are range blocks for a parameter
RangeBlocksFor(name) ==
    SelectSeq(out.msg, LAMBDA b : b.kind = "range" /\ b.name = name)

\* the message has one range block for the parameter, listing exactly the
\* indices of its negative elements, ascending, and exactly their values
ListsNegativesOf(name, pv) ==
    /\ out.exc = "ValueError"
    /\ Len(RangeBlocksFor(name)) = 1
    /\ LET b == RangeBlocksFor(name)[1]
           e == Elements(pv)
       IN  /\ {b.indices[k] : k \in 1..Len(b.indices)}
                = {i - 1 : i \in {x \in 1..Len(e) : FLess(e[x], R(0))}}
           /\ \A k \in 1..Len(b.indices) - 1 : b.indices[k] < b.indices[k + 1]
           /\ Len(b.values) = Len(b.indices)
           /\ \A k \in 1..Len(b.indices) : b.values[k] = e[b.indices[k] + 1]

\* C9: validateParameters given couplings (or velocities) as a scalar or list
\* with at least one negative element raises ValueError whose message names
\* the parameter and lists exactly the indices of all its negative elements
\* and exactly their values, in index order.
C9_NegativesListed ==
    RingValidateDone =>
        /\ HasNegative(args.couplings) => ListsNegativesOf("couplings", args.couplings)
        /\ HasNegative(args.velocities) => ListsNegativesOf("velocities", args.velocities)

\* the call of the spec's example, couplings=[-1,2,-3] alone, which the code
\* answers as the claim says
C9_ExampleReported ==
    /\ RingValidateDone
    /\ args = [couplings |-> List(<<R(-1), R(2), R(-3)>>), velocities |-> None]
    /\ out = Raised("ValueError",
                    <<[kind |-> "range", name |-> "couplings",
                       indices |-> <<0, 2>>, values |-> <<R(-1), R(-3)>>]>>)

HasShapeBlock ==
    out.exc = "ValueError" /\ \E k \in 1..Len(out.msg) : out.msg[k].kind = "shape"

\* C10: validateParameters given couplings and velocities as lists of
\* lengths m # n, neither of them 1, raises ValueError whose message reports
\* the shapes (m,) and (n,); it reports no shape violation when the lengths
\* are equal, when either length is 1 or when either is a scalar.
C10_ShapeMismatchReported ==
    RingValidateDone =>
        LET c == args.couplings
            v == args.velocities
        IN  /\ (/\ c.t = "list" /\ v.t = "list"
                /\ Len(c.v) # Len(v.v) /\ Len(c.v) # 1 /\ Len(v.v) # 1)
               => /\ out.exc = "ValueError"
                  /\ \E k \in 1..Len(out.msg) :
                        /\ out.msg[k].kind = "shape"
                        /\ out.msg[k].couplings_shape = <<Len(c.v)>>
                        /\ out.msg[k].velocities_shape = <<Len(v.v)>>
            /\ (\/ c.t = "num" \/ v.t = "num"
                \/ (c.t = "list" /\ v.t = "list"
                    /\ (Len(c.v) = Len(v.v) \/ Len(c.v) = 1 \/ Len(v.v) = 1)))
               => ~HasShapeBlock

\* the doctest call with shapes (3,) and (4,), which the code answers as the
\* claim says
C10_ExampleReported ==
    /\ RingValidateDone
    /\ args = [couplings |-> List(<<R(1), R(2), R(3)>>),
               velocities |-> List(<<R(4), R(5), R(6), R(7)>>)]
    /\ out = Raised("ValueError",
                    <<[kind |-> "shape", name |-> "couplings, velocities",
                       couplings_shape |-> <<3>>, velocities_shape |-> <<4>>]>>)

\* both arguments are lists whose shapes cannot be broadcast together
ShapesIncompatible(c, v) ==
    /\ c.t = "list" /\ v.t = "list"
    /\ Len(c.v) # Len(v.v) /\ Len(c.v) # 1 /\ Len(v.v) # 1

\* position of a block in the fixed order of the checks
BlockRank(b) ==
    IF b.kind = "range" /\ b.name = "couplings" THEN 1
    ELSE IF b.kind = "range" /\ b.name = "velocities" THEN 2
    ELSE 3

ShapesCompatible(c, v) ==
    c.t = "None" \/ v.t = "None" \/ Broadcastable(asarray(c), asarray(v))

\* C15: validateParameters returns normally (None, nothing raised) whenever
\* every present value is >= 0 and the present shapes are broadcast-compatible,
\* for every combination of absent, scalar or list arguments.
C15_ValidInputsAccepted ==
    RingValidateDone =>
        ((~HasNegative(args.couplings) /\ ~HasNegative(args.velocities)
          /\ ShapesCompatible(args.couplings, args.velocities))
         => out = Returned(None))

\* the doctest call couplings=[1,2,3], velocities=6, which the code accepts
C15_ExampleAccepted ==
    /\ RingValidateDone
    /\ args = [couplings |-> List(<<R(1), R(2), R(3)>>), velocities |-> Num(R(6))]
    /\ out = Returned(None)

----------------------------------------------------------------------------
(* CCqo103: valArrayTests(a, name, errorNegative, warnComplex) and         *)
(* validateParameters(wavevec=..., couplings_pump=..., ...)                *)
(* An argument is None, a Python scalar (an item) or a list of arguments;  *)
(* np.array turns it into a data type kind, a dimension and its elements.  *)

\* a Python scalar: bool 'b', int 'i', float 'f', complex 'c' or str 'S'
Item(kind, re, im) == [t |-> "item", kind |-> kind, re |-> re, im |-> im]

\* nesting depth of an argument: a.ndim
RECURSIVE Depth(_)
Depth(pv) ==
    IF pv.t = "item" THEN 0
    ELSE IF pv.v = <<>> THEN 1
    ELSE 1 + Depth(pv.v[1])

RECURSIVE FlattenFrom(_, _)
RECURSIVE Flatten(_)
\* the scalars of an argument in row-major order
Flatten(pv) == IF pv.t = "item" THEN <<pv>> ELSE FlattenFrom(pv.v, 1)

FlattenFrom(s, i) == IF i > Len(s) THEN <<>> ELSE Flatten(s[i]) \o FlattenFrom(s, i + 1)

\* the data type kind np.array chooses for a set of scalar kinds
PromoteKind(kinds) ==
    IF "S" \in kinds THEN "S"
    ELSE IF "c" \in kinds THEN "c"
    ELSE IF "f" \in kinds THEN "f"
    ELSE IF "i" \in kinds THEN "i"
    ELSE IF "b" \in kinds THEN "b"
    ELSE "f"

\* np.array(x)
np_array(pv) ==
    LET items == Flatten(pv)
    IN  [kind |-> PromoteKind({items[i].kind : i \in 1..Len(items)}),
         ndim |-> Depth(pv),
         v |-> items]

numeric_kinds == {"b", "i", "u", "f", "c"}

\* np.any(a < 0): complex numbers are ordered by real part, then imaginary
\* part; a comparison of a string array with 0 yields the scalar False
AnyNegative(a) ==
    /\ a.kind \in numeric_kinds
    /\ \E i \in 1..Len(a.v) :
          \/ a.v[i].re < 0
          \/ (a.v[i].re = 0 /\ a.v[i].im < 0)

KindBlock(name, a) == [kind |-> "dtype", name |-> name, received |-> a.kind]

ComplexBlock(name) == [kind |-> "complex", name |-> name]

NdimBlock(name, a) == [kind |-> "ndim", name |-> name, received |-> a.ndim]

NegativeBlock(name) == [kind |-> "negative", name |-> name]

\* a test that does not look at the number of dimensions
valArrayTests_NoDimCheck(a, name, errorNegative, warnComplex) ==
    LET badKind == a.kind \notin numeric_kinds
        complex == badKind /\ a.kind = "c" /\ warnComplex
        negative == AnyNegative(a) /\ errorNegative
    IN  [err |-> badKind \/ negative,
         eMsg |-> (IF badKind THEN <<KindBlock(name, a)>> ELSE <<>>)
                  \o (IF negative THEN <<NegativeBlock(name)>> ELSE <<>>),
         wrn |-> complex,
         wMsg |-> IF complex THEN <<ComplexBlock(name)>> ELSE <<>>]

valArrayTests(a, name, errorNegative, warnComplex) ==
    LET badKind == a.kind \notin numeric_kinds
        complex == badKind /\ a.kind = "c" /\ warnComplex
        badDim == a.ndim > 1
        negative == AnyNegative(a) /\ errorNegative
    IN  [err |-> badKind \/ badDim \/ negative,
         eMsg |-> (IF badKind THEN <<KindBlock(name, a)>> ELSE <<>>)
                  \o (IF badDim THEN <<NdimBlock(name, a)>> ELSE <<>>)
                  \o (IF negative THEN <<NegativeBlock(name)>> ELSE <<>>),
         wrn |-> complex,
         wMsg |-> IF complex THEN <<ComplexBlock(name)>> ELSE <<>>]

\* the Python scalars passed to the validator: True, -1, 0, 2, -1.0, 1+1j,
\* -1j and 'a'
ArrayItems ==
    { Item("b", 1, 0), Item("i", -1, 0), Item("i", 0, 0), Item("i", 2, 0),
      Item("f", -1, 0), Item("c", 1, 1), Item("c", 0, -1), Item("S", 0, 0) }

\* scalars, flat lists and lists of one or two equal rows
ArrayInputs ==
    ArrayItems
    \cup {List(l) : l \in SeqsUpTo(ArrayItems, MaxPumpLen)}
    \cup {List(<<List(<<x, y>>)>>) : x, y \in {Item("i", 2, 0), Item("i", -1, 0), Item("c", 1, 1)}}
    \cup {List(<<List(<<x>>), List(<<x>>)>>) : x \in ArrayItems}

InitValArrayTests ==
    /\ fn = "valArrayTests"
    /\ args \in [x : ArrayInputs, name : {"pump velocities"},
                 errorNegative : BOOLEAN, warnComplex : BOOLEAN]
    /\ out = Pending
    /\ NotRunning

CallValArrayTests ==
    /\ fn = "valArrayTests"
    /\ out = Pending
    /\ out' = Returned(valArrayTests(np_array(args.x), args.name,
                                     args.errorNegative, args.warnComplex))
    /\ UNCHANGED <<fn, args>>
    /\ UNCHANGED mainVars

NextValArrayTests == CallValArrayTests

SpecValArrayTests == InitValArrayTests /\ [][NextValArrayTests]_vars

ValArrayTestsDone == fn = "valArrayTests" /\ out # Pending

\* the final block of the validator: the warning is tested first
PumpRaise(r) ==
    IF r.wrn THEN Raised("RuntimeWarning", r.wMsg)
    ELSE IF r.err THEN Raised("ValueError", r.eMsg)
    ELSE Returned(None)

\* err, eMsg, wrn, wMsg before the first test
NoFindings == [err |-> FALSE, eMsg |-> <<>>, wrn |-> FALSE, wMsg |-> <<>>]

\* the four variables after the test of one parameter: the test of a
\* parameter that is present assigns all four anew
AfterTest(r, pv, name, errorNegative, warnComplex) ==
    IF pv.t = "None" THEN r
    ELSE valArrayTests(np_array(pv), name, errorNegative, warnComplex)

PumpFindings(wavevec, couplings_pump, velocities_pump, ring_damping_pump, pump_input) ==
    LET r1 == AfterTest(NoFindings, wavevec, "spectrum variable", FALSE, TRUE)
        r2 == AfterTest(r1, couplings_pump, "pump couplings", TRUE, FALSE)
        r3 == AfterTest(r2, velocities_pump, "pump velocities", TRUE, TRUE)
        r4 == AfterTest(r3, ring_damping_pump, "pump ring damping", TRUE, TRUE)
    IN  AfterTest(r4, pump_input, "pump input", TRUE, FALSE)

validatePumpParameters(wavevec, couplings_pump, velocities_pump, ring_damping_pump, pump_input) ==
    PumpRaise(PumpFindings(wavevec, couplings_pump, velocities_pump, ring_damping_pump, pump_input))

\* the values one keyword of the validator takes: absent, a scalar, a flat
\* list with or without a negative element, a complex scalar, a list of
\* strings, a 2-d list
PumpValidateVals ==
    { None, Item("i", 2, 0), Item("i", -1, 0), Item("c", 1, 1),
      List(<<Item("S", 0, 0)>>),
      List(<<List(<<Item("i", 2, 0)>>), List(<<Item("i", 2, 0)>>)>>) }
    \cup {List([i \in 1..n |-> Item("i", IF i = n THEN x ELSE 2, 0)]) :
             n \in 1..MaxPumpLen, x \in {-1, 2}}

PumpKeywords ==
    {"wavevec", "couplings_pump", "velocities_pump", "ring_damping_pump", "pump_input"}

InitPumpValidate ==
    /\ fn = "validateParameters(pump)"
    /\ args \in [PumpKeywords -> PumpValidateVals]
    /\ out = Pending
    /\ NotRunning

CallPumpValidate ==
    /\ fn = "validateParameters(pump)"
    /\ out = Pending
    /\ out' = validatePumpParameters(args.wavevec, args.couplings_pump, args.velocities_pump,
                                     args.ring_damping_pump, args.pump_input)
    /\ UNCHANGED <<fn, args>>
    /\ UNCHANGED mainVars

NextPumpValidate == CallPumpValidate

SpecPumpValidate == InitPumpValidate /\ [][NextPumpValidate]_vars

PumpValidateDone == fn = "validateParameters(pump)" /\ out # Pending

\* the scalars of an argument, none for an absent one
ItemsOf(pv) == IF pv.t = "None" THEN <<>> ELSE Flatten(pv)

HasNegativeItem(pv) ==
    \E i \in 1..Len(ItemsOf(pv)) :
        ItemsOf(pv)[i].kind \in {"b", "i", "f"} /\ ItemsOf(pv)[i].re < 0

HasStringItem(pv) == \E i \in 1..Len(ItemsOf(pv)) : ItemsOf(pv)[i].kind = "S"

MoreThan1D(pv) == pv.t # "None" /\ Depth(pv) > 1

\* the raised ValueError has a block of that kind for that parameter
ReportsViolation(kind, name) ==
    /\ out.exc = "ValueError"
    /\ \E k \in 1..Len(out.msg) : out.msg[k].kind = kind /\ out.msg[k].name = name

PumpNames ==
    [wavevec |-> "spectrum variable", couplings_pump |-> "pump couplings",
     velocities_pump |-> "pump velocities", ring_damping_pump |-> "pump ring damping",
     pump_input |-> "pump input"]

\* C12: validateParameters of the spectral pump accumulates the violations of
\* all five parameters: a present couplings_pump, velocities_pump,
\* ring_damping_pump or pump_input with a negative element, and any present
\* parameter that is non-numeric or more than one-dimensional, makes the call
\* raise ValueError with that violation in the message, whatever the
\* parameters checked after it hold.
C12_PumpViolationsAccumulated ==
    PumpValidateDone =>
        \A p \in PumpKeywords :
            /\ (p # "wavevec" /\ HasNegativeItem(args[p]))
               => ReportsViolation("negative", PumpNames[p])
            /\ HasStringItem(args[p]) => ReportsViolation("dtype", PumpNames[p])
            /\ MoreThan1D(args[p]) => ReportsViolation("ndim", PumpNames[p])

\* a negative value in the parameter checked last, which the code reports
C12_LastParameterReported ==
    /\ PumpValidateDone
    /\ args.couplings_pump = Item("i", 2, 0)
    /\ args.pump_input = List(<<Item("i", 2, 0), Item("i", -1, 0)>>)
    /\ out = Raised("ValueError", <<NegativeBlock("pump input")>>)

\* the argument holds a complex scalar and no string, so np.array gives it a
\* complex data type
IsComplexInput(pv) ==
    /\ \E i \in 1..Len(ItemsOf(pv)) : ItemsOf(pv)[i].kind = "c"
    /\ ~HasStringItem(pv)

\* C14: valArrayTests called with warnComplex=True on complex-valued input
\* sets the warning flag and a non-empty warning message; called with
\* warnComplex=False it does not flag complex input.
C14_ComplexFlagged ==
    ValArrayTestsDone =>
        /\ (IsComplexInput(args.x) /\ args.warnComplex)
           => (out.val.wrn /\ out.val.wMsg # <<>>)
        /\ ~args.warnComplex => (~out.val.wrn /\ out.val.wMsg = <<>>)

\* a complex array tested with warnComplex=False, which the code leaves
\* unflagged as the claim says
C14_ComplexAllowed ==
    /\ ValArrayTestsDone
    /\ args.x = List(<<Item("c", 1, 1), Item("i", 2, 0)>>)
    /\ ~args.warnComplex
    /\ out = Returned(NoFindings)

----------------------------------------------------------------------------
(* The block that ends every validateParameters: it turns the flags err    *)
(* and wrn and the messages eMsg and wMsg into the outcome of the call.    *)

\* CCqo101: both flags first, then the warning, then the error
DetuningRaise(r) ==
    IF r.err /\ r.wrn THEN Raised("ValueError", r.eMsg \o r.wMsg)
    ELSE IF r.wrn THEN Raised("RuntimeWarning", r.wMsg)
    ELSE IF r.err THEN Raised("ValueError", r.eMsg)
    ELSE Returned(None)

\* CCID_template: the warning is tested first
TemplateRaise(r) ==
    IF r.wrn THEN Raised("RuntimeWarning", r.wMsg)
    ELSE IF r.err THEN Raised("ValueError", r.eMsg)
    ELSE Returned(None)

Scripts == {"CCqo101_FWM_detuning", "CCqo102_ring_damping", "CCqo103_spectral_pump", "CCID_template"}

FinalBlock(script, r) ==
    IF script = "CCqo101_FWM_detuning" THEN DetuningRaise(r)
    ELSE IF script = "CCqo102_ring_damping" THEN RingRaise(r)
    ELSE IF script = "CCqo103_spectral_pump" THEN PumpRaise(r)
    ELSE TemplateRaise(r)

\* messages the checks build: one or more blocks for a set flag, '' otherwise
ErrorMessages ==
    SeqsUpTo({NegativeBlock("pump input"), NdimBlock("pump input", [ndim |-> 2])}, MaxPumpLen)
        \ {<<>>}

WarningMessages == {<<ComplexBlock("pump velocities")>>, <<ComplexBlock("spectrum variable")>>}

Findings ==
    {[err |-> e # <<>>, eMsg |-> e, wrn |-> w # <<>>, wMsg |-> w] :
        e \in ErrorMessages \cup {<<>>}, w \in WarningMessages \cup {<<>>}}

InitFinalBlock ==
    /\ fn = "validateParameters(final block)"
    /\ args \in [script : Scripts, r : Findings]
    /\ out = Pending
    /\ NotRunning

CallFinalBlock ==
    /\ fn = "validateParameters(final block)"
    /\ out = Pending
    /\ out' = FinalBlock(args.script, args.r)
    /\ UNCHANGED <<fn, args>>
    /\ UNCHANGED mainVars

NextFinalBlock == CallFinalBlock

SpecFinalBlock == InitFinalBlock /\ [][NextFinalBlock]_vars

FinalBlockDone == fn = "validateParameters(final block)" /\ out # Pending

\* part occurs in msg as a run of consecutive blocks
ContainsText(msg, part) ==
    \E k \in 0..(Len(msg) - Len(part)) :
        \A i \in 1..Len(part) : msg[k + i] = part[i]

C13_RingBothFlags ==
    /\ FinalBlockDone
    /\ args.script = "CCqo102_ring_damping"
    /\ args.r.err /\ args.r.wrn
    /\ out = Raised("ValueError", args.r.wMsg \o args.r.eMsg)

----------------------------------------------------------------------------
(* The command-line run of a script: the block under                       *)
(* '__main__' == __name__, the same in the four scripts but for the names  *)
(* and for getInputs in CCqo103.  The scripts are Python 2 (print          *)
(* statements).  What the validator finds in the inputs and what the       *)
(* calculator makes of them are given with the inputs of the run.          *)

CRITICAL == 50

ERROR == 40

INFO == 20

DEBUG == 10

\* -v is given 0..MaxVerbose times
MaxVerbose == 4

\* the primary results of the runs are 1..MaxResult
MaxResult == 2

Min(a, b) == IF a < b THEN a ELSE b

levelTranslation ==
    [v \in 0..3 |-> IF v = 0 THEN CRITICAL
                    ELSE IF v = 1 THEN WARNING
                    ELSE IF v = 2 THEN INFO
                    ELSE DEBUG]

\* lgr.debug(msg), lgr.info(msg), lgr.warn(msg), lgr.error(msg)
LogRecord(level, msg) == [level |-> level, msg |-> msg]

\* a line of text that is not a validation message
Text(t) == <<[kind |-> "text", name |-> t]>>

\* a handler writes a record whose level reaches the level of the logger
Emitted(rec) == rec.level >= logLevel

\* lgr.debug of the inputs at the start of validateParameters; CCqo103 asks
\* for the level first
ValidatorDebug(script) ==
    IF script = "CCqo103_spectral_pump" /\ logLevel # DEBUG THEN <<>>
    ELSE <<LogRecord(DEBUG, Text("Inputs for validation:"))>>

\* print(kwargs) in validateParameters of CCqo101
ValidatorPrint(script) ==
    IF script = "CCqo101_FWM_detuning" THEN <<[kind |-> "kwargs"]>> ELSE <<>>

\* lgr.warn(wMsg) and lgr.error(eMsg) of the final block of validateParameters
FinalBlockLog(script, r) ==
    IF script \in {"CCqo101_FWM_detuning", "CCqo102_ring_damping"}
    THEN (IF r.wrn THEN <<LogRecord(WARNING, r.wMsg)>> ELSE <<>>)
         \o (IF r.err THEN <<LogRecord(ERROR, r.eMsg)>> ELSE <<>>)
    ELSE IF r.wrn THEN <<LogRecord(WARNING, r.wMsg)>>
    ELSE IF r.err THEN <<LogRecord(ERROR, r.eMsg)>>
    ELSE <<>>

\* the except clauses around the call of validateParameters
ValidationHandlerLog(script, o) ==
    IF o.exc = "none" THEN <<>>
    ELSE IF o.exc = "RuntimeWarning" THEN <<LogRecord(WARNING, o.msg)>>
    ELSE IF o.exc = "ValueError" THEN <<LogRecord(ERROR, o.msg)>>
    ELSE <<LogRecord(ERROR, Text("Error in " \o script \o "."))>>

\* the log requests of the calculator: only calcqo103_spectral_pump has any
CalculatorLog(script, o) ==
    IF script # "CCqo103_spectral_pump" THEN <<>>
    ELSE IF o.exc # "none" THEN <<LogRecord(ERROR, o.msg)>>
    ELSE IF logLevel = DEBUG THEN <<LogRecord(DEBUG, Text("ring response function"))>>
    ELSE <<>>

\* the name of the calculator of a script
Calculator(script) ==
    IF script = "CCqo101_FWM_detuning" THEN "calcqo101_FWM_detuning"
    ELSE IF script = "CCqo102_ring_damping" THEN "calc_ring_damping"
    ELSE IF script = "CCqo103_spectral_pump" THEN "calcqo103_spectral_pump"
    ELSE "calcID_template"

\* the summary a run logs instead of printing the result
Summary(script, result) == <<[kind |-> "summary", name |-> script, result |-> result]>>

\* what validateParameters finds in the inputs of a run
MainFindings ==
    {[err |-> e # <<>>, eMsg |-> e, wrn |-> w # <<>>, wMsg |-> w] :
        e \in {<<>>, <<NegativeBlock("inputs")>>},
        w \in {<<>>, <<ComplexBlock("inputs")>>}}

\* what the calculator makes of the inputs of a run: a result, or for the
\* two calculators that can fail (shapes, zero denominator) a ValueError
Calculations(script) ==
    {Returned(x) : x \in 1..MaxResult}
    \cup (IF script \in {"CCqo102_ring_damping", "CCqo103_spectral_pump"}
          THEN {Raised("ValueError", Text("calculation"))}
          ELSE {})

\* whether getInputs can read the file; only CCqo103 reads one
Files(script) == IF script = "CCqo103_spectral_pump" THEN {"ok", "invalid"} ELSE {"ok"}

MainInputs(script) ==
    [file : Files(script), findings : MainFindings, calculation : Calculations(script)]

CommandLines ==
    {[script |-> sc, validate |-> va, verbose |-> ve, inputs |-> i] :
        sc \in Scripts, va \in BOOLEAN, ve \in 0..MaxVerbose,
        i \in UNION {MainInputs(x) : x \in Scripts}}

InitMain ==
    /\ fn = "__main__"
    /\ args \in {a \in CommandLines : a.inputs \in MainInputs(a.script)}
    /\ out = Pending
    /\ pc = "start"
    /\ logLevel = WARNING
    /\ log = <<>>
    /\ stdout = <<>>
    /\ stderr = <<>>
    /\ calls = <<>>
    /\ status = "none"

\* where the try block starts
AfterSetup ==
    IF args.script = "CCqo103_spectral_pump" THEN "getInputs"
    ELSE IF args.validate THEN "validate"
    ELSE "calculate"

\* the level from the count of -v, appl_setupLog and the first lgr.debug; a
\* count that levelTranslation does not know raises KeyError outside the try
SetupLog ==
    /\ pc = "start"
    /\ LET verbosity == Min(DEBUG, args.verbose)
       IN  IF args.verbose # 0 /\ verbosity \notin DOMAIN levelTranslation
           THEN /\ out' = Raised("KeyError", Text("levelTranslation"))
                /\ pc' = "uncaught"
                /\ UNCHANGED <<logLevel, log>>
           ELSE /\ logLevel' = IF args.verbose # 0 THEN levelTranslation[verbosity]
                               ELSE CRITICAL
                /\ log' = Append(log, LogRecord(DEBUG, Text("Inputs and Defaults:")))
                /\ pc' = AfterSetup
                /\ UNCHANGED out
    /\ UNCHANGED <<fn, args, stdout, stderr, calls, status>>

\* emr.getInputs(args.spectral_inputs, ...) of CCqo103
GetInputs ==
    /\ pc = "getInputs"
    /\ calls' = Append(calls, [f |-> "getInputs", inputs |-> args.inputs])
    /\ LET debug == IF logLevel = DEBUG
                    THEN <<LogRecord(DEBUG, Text("Inputs and defaults to the method:"))>>
                    ELSE <<>>
           m == Text("Received invalid entries")
       IN  IF args.inputs.file = "ok"
           THEN /\ log' = log \o debug
                /\ pc' = IF args.validate THEN "validate" ELSE "calculate"
                /\ UNCHANGED out
           ELSE /\ log' = log \o debug \o <<LogRecord(ERROR, m)>>
                /\ out' = Raised("ValueError", m)
                /\ pc' = "except"
    /\ UNCHANGED <<fn, args, logLevel, stdout, stderr, status>>

\* a run that logs a ValueError of the validator and goes on to calculate
Validate_SwallowsErrors ==
    /\ pc = "validate"
    /\ LET r == args.inputs.findings
           o == FinalBlock(args.script, r)
       IN  /\ calls' = Append(calls, [f |-> "validateParameters", inputs |-> args.inputs])
           /\ stdout' = stdout \o ValidatorPrint(args.script)
           /\ log' = log \o ValidatorDebug(args.script) \o FinalBlockLog(args.script, r)
                         \o ValidationHandlerLog(args.script, o)
           /\ pc' = "calculate"
           /\ UNCHANGED out
    /\ UNCHANGED <<fn, args, logLevel, stderr, status>>

\* a run that treats a RuntimeWarning of the validator as fatal
Validate_AbortsOnWarning ==
    /\ pc = "validate"
    /\ LET r == args.inputs.findings
           o == FinalBlock(args.script, r)
       IN  /\ calls' = Append(calls, [f |-> "validateParameters", inputs |-> args.inputs])
           /\ stdout' = stdout \o ValidatorPrint(args.script)
           /\ log' = log \o ValidatorDebug(args.script) \o FinalBlockLog(args.script, r)
                         \o ValidationHandlerLog(args.script, o)
           /\ IF o.exc = "none"
              THEN pc' = "calculate" /\ UNCHANGED out
              ELSE pc' = "except" /\ out' = o
    /\ UNCHANGED <<fn, args, logLevel, stderr, status>>

\* if args.validate: try: emr.validateParameters(...) except ...
Validate ==
    /\ pc = "validate"
    /\ LET r == args.inputs.findings
           o == FinalBlock(args.script, r)
       IN  /\ calls' = Append(calls, [f |-> "validateParameters", inputs |-> args.inputs])
           /\ stdout' = stdout \o ValidatorPrint(args.script)
           /\ log' = log \o ValidatorDebug(args.script) \o FinalBlockLog(args.script, r)
                         \o ValidationHandlerLog(args.script, o)
           /\ IF o.exc \in {"none", "RuntimeWarning"}
              THEN pc' = "calculate" /\ UNCHANGED out
              ELSE pc' = "except" /\ out' = o
    /\ UNCHANGED <<fn, args, logLevel, stderr, status>>

\* the call of the calculator
Calculate ==
    /\ pc = "calculate"
    /\ LET o == args.inputs.calculation
       IN  /\ calls' = Append(calls, [f |-> Calculator(args.script), inputs |-> args.inputs])
           /\ log' = log \o CalculatorLog(args.script, o)
           /\ out' = o
           /\ pc' = IF o.exc = "none" THEN "output" ELSE "except"
    /\ UNCHANGED <<fn, args, logLevel, stdout, stderr, status>>

\* if lgr.getEffectiveLevel() > logging.INFO: print(<result>) else: lgr.info(msg)
Output ==
    /\ pc = "output"
    /\ IF logLevel > INFO
       THEN /\ stdout' = Append(stdout, [kind |-> "result", result |-> out.val])
            /\ UNCHANGED log
       ELSE /\ log' = Append(log, LogRecord(INFO, Summary(args.script, out.val)))
            /\ UNCHANGED stdout
    /\ pc' = "exit"
    /\ UNCHANGED <<fn, args, out, logLevel, stderr, calls, status>>

\* except Exception: print ex_type; print ex; the two TRACEBACK records
\* around traceback.print_tb(tb)
Handle ==
    /\ pc = "except"
    /\ stdout' = stdout \o <<[kind |-> "ex_type", class |-> out.exc],
                             [kind |-> "ex", msg |-> out.msg]>>
    /\ log' = log \o <<LogRecord(ERROR, Text("<TRACEBACK>")),
                       LogRecord(ERROR, Text("</TRACEBACK>"))>>
    /\ stderr' = Append(stderr, [kind |-> "traceback"])
    /\ pc' = "exit"
    /\ UNCHANGED <<fn, args, out, logLevel, calls, status>>

\* the script reaches its last line: the interpreter exits with status 0
Exit ==
    /\ pc = "exit"
    /\ status' = 0
    /\ pc' = "done"
    /\ UNCHANGED <<fn, args, out, logLevel, log, stdout, stderr, calls>>

\* an exception nobody catches: the interpreter prints the traceback and the
\* exception and exits with status 1
Uncaught ==
    /\ pc = "uncaught"
    /\ stderr' = stderr \o <<[kind |-> "traceback"], [kind |-> "exception", class |-> out.exc]>>
    /\ status' = 1
    /\ pc' = "done"
    /\ UNCHANGED <<fn, args, out, logLevel, log, stdout, calls>>

NextMain ==
    \/ SetupLog
    \/ GetInputs
    \/ Validate
    \/ Calculate
    \/ Output
    \/ Handle
    \/ Exit
    \/ Uncaught

SpecMain == InitMain /\ [][NextMain]_vars

MainDone == fn = "__main__" /\ pc = "done"

CallsOf(f) == SelectSeq(calls, LAMBDA c : c.f = f)

PrintedResults == SelectSeq(stdout, LAMBDA p : p.kind = "result")

LoggedSummaries == SelectSeq(log, LAMBDA rec : rec.level = INFO)

\* the log has a request of that level with that message
Logged(level, msg) == \E k \in 1..Len(log) : log[k].level = level /\ log[k].msg = msg

\* validateParameters has been called in this run and has raised e
ValidationRaised(e) ==
    /\ fn = "__main__"
    /\ CallsOf("validateParameters") # <<>>
    /\ FinalBlock(args.script, args.inputs.findings).exc = e

Failed == fn = "__main__" /\ out.exc \notin {"pending", "none", "KeyError"}

\* C18: a failure raised during validation or calculation is caught at the
\* top level, its class and message are reported together with a stack
\* trace, and the process terminates with a non-zero exit status.
C18_FailureExitsNonZero ==
    (MainDone /\ Failed) =>
        /\ \E k \in 1..Len(stdout) : stdout[k].kind = "ex_type" /\ stdout[k].class = out.exc
        /\ \E k \in 1..Len(stdout) : stdout[k].kind = "ex" /\ stdout[k].msg = out.msg
        /\ \E k \in 1..Len(stderr) : stderr[k].kind = "traceback"
        /\ status # 0

\* a failed calculation that the handler reports as the claim says, before
\* the run ends
C18_FailureReported ==
    /\ pc = "exit"
    /\ Failed
    /\ ~args.validate
    /\ stdout = <<[kind |-> "ex_type", class |-> "ValueError"],
                  [kind |-> "ex", msg |-> Text("calculation")]>>
    /\ stderr = <<[kind |-> "traceback"]>>

\* C19: a successful run produces exactly one output: with a logger level
\* above INFO (verbosity 0 or 1) the result is printed and no summary is
\* logged; otherwise the summary is logged at INFO and nothing is printed.
C19_ExactlyOneOutput ==
    (MainDone /\ out.exc = "none") =>
        IF logLevel > INFO
        THEN /\ args.verbose \in {0, 1}
             /\ stdout = <<[kind |-> "result", result |-> out.val]>>
             /\ LoggedSummaries = <<>>
        ELSE /\ args.verbose >= 2
             /\ LoggedSummaries = <<LogRecord(INFO, Summary(args.script, out.val))>>
             /\ stdout = <<>>

\* a successful run of the ring script at verbosity 2, which logs the
\* summary and prints nothing as the claim says
C19_SummaryLogged ==
    /\ MainDone
    /\ args.script = "CCqo102_ring_damping"
    /\ args.verbose = 2
    /\ out = Returned(2)
    /\ stdout = <<>>
    /\ LoggedSummaries = <<LogRecord(INFO, Summary("CCqo102_ring_damping", 2))>>

\* the level the help text of -v promises for a count of flags
PromisedLevel(count) ==
    IF count = 0 THEN CRITICAL
    ELSE IF count = 1 THEN WARNING
    ELSE IF count = 2 THEN INFO
    ELSE DEBUG

\* C24: at start-up the count of -v flags selects the logger level: 0 gives
\* CRITICAL, 1 WARNING, 2 INFO, 3 DEBUG and 4 or more DEBUG as well; for every
\* count the level is set and the run goes on without error.
C24_VerbositySelectsLevel ==
    (fn = "__main__" /\ pc # "start") =>
        /\ logLevel = PromisedLevel(args.verbose)
        /\ pc # "uncaught"
        /\ out.exc # "KeyError"
        /\ pc = "done" => status = 0

\* a run with -vvv, whose level is DEBUG as the claim says
C24_ThreeFlagsDebug ==
    /\ MainDone
    /\ args.verbose = 3
    /\ logLevel = DEBUG
    /\ status = 0

\* positions of the blocks of one kind in the error message of the result
BlocksOfKind(kind) ==
    {k \in 1..Len(out.val.eMsg) :
        out.val.eMsg[k].kind = kind /\ out.val.eMsg[k].name = args.name}

\* an element that NumPy orders below zero: by real part, then imaginary part
BelowZero(pv) ==
    \E i \in 1..Len(ItemsOf(pv)) :
        /\ ItemsOf(pv)[i].kind # "S"
        /\ \/ ItemsOf(pv)[i].re < 0
           \/ (ItemsOf(pv)[i].re = 0 /\ ItemsOf(pv)[i].im < 0)

\* C26: valArrayTests sets err with a message naming the parameter when the
\* data type kind of the array is not boolean, integer, unsigned, float or
\* complex, and independently when the array has more than one dimension; an
\* array with both defects yields both messages, the data kind first; a
\* numeric array of dimension 0 or 1 without a negative element yields
\* err=False and an empty message.
C26_KindAndDimensionChecked ==
    ValArrayTestsDone =>
        LET x == args.x
            r == out.val
        IN  /\ HasStringItem(x) => (r.err /\ Cardinality(BlocksOfKind("dtype")) = 1)
            /\ ~HasStringItem(x) => BlocksOfKind("dtype") = {}
            /\ MoreThan1D(x) => (r.err /\ Cardinality(BlocksOfKind("ndim")) = 1)
            /\ ~MoreThan1D(x) => BlocksOfKind("ndim") = {}
            /\ \A i \in BlocksOfKind("dtype") : \A j \in BlocksOfKind("ndim") : i < j
            /\ (~HasStringItem(x) /\ ~MoreThan1D(x) /\ ~BelowZero(x))
               => (~r.err /\ r.eMsg = <<>>)

\* a two-dimensional array of strings, reported with both messages
C26_Witness ==
    /\ ValArrayTestsDone
    /\ args.x = List(<<List(<<Item("S", 0, 0)>>), List(<<Item("S", 0, 0)>>)>>)
    /\ out.val.err
    /\ Len(out.val.eMsg) = 2
    /\ out.val.eMsg[1].kind = "dtype"
    /\ out.val.eMsg[2].kind = "ndim"

\* every element of a scalar or list argument is > 0
AllPositive(pv) == \A i \in 1..Len(Elements(pv)) : FLess(R(0), Elements(pv)[i])

AllZero(pv) == \A i \in 1..Len(Elements(pv)) : Elements(pv)[i] = R(0)

----------------------------------------------------------------------------
(* CCqo102: validateParameters followed by calc_ring_damping on the same   *)
(* values, as the script does when --validate is given.  The outcome of    *)
(* the validation is kept in calls, the outcome of the calculation in out. *)

\* scalars and non-empty lists
RingChannelArgs == {a \in RingArgs : a.t = "num" \/ a.v # <<>>}

InitValidateThenCalc ==
    /\ fn = "validateParameters, calc_ring_damping"
    /\ args \in [couplings : RingChannelArgs, velocities : RingChannelArgs]
    /\ out = Pending
    /\ NotRunning

ValidateFirst ==
    /\ fn = "validateParameters, calc_ring_damping"
    /\ calls = <<>>
    /\ calls' = <<[f |-> "validateParameters",
                   outcome |-> validateRingParameters(args.couplings, args.velocities)]>>
    /\ UNCHANGED <<fn, args, out, pc, logLevel, log, stdout, stderr, status>>

\* the calculation is reached only when the validation has raised nothing
CalcAfterValidate ==
    /\ fn = "validateParameters, calc_ring_damping"
    /\ Len(calls) = 1
    /\ calls[1].outcome.exc = "none"
    /\ out' = calc_ring_damping(args.couplings, args.velocities)
    /\ calls' = Append(calls, [f |-> "calc_ring_damping", outcome |-> out'])
    /\ UNCHANGED <<fn, args, pc, logLevel, log, stdout, stderr, status>>

NextValidateThenCalc == ValidateFirst \/ CalcAfterValidate

SpecValidateThenCalc == InitValidateThenCalc /\ [][NextValidateThenCalc]_vars

\* the number of channels two arguments broadcast to
BroadcastLength(c, v) == Max(Len(Elements(c)), Len(Elements(v)))

\* C29: for couplings and velocities that are scalars or non-empty lists, if
\* validateParameters returns without raising then calc_ring_damping on the
\* same values returns without raising, and path_losses has the broadcast
\* length of the two inputs.
C29_ValidationSufficient ==
    (fn = "validateParameters, calc_ring_damping" /\ Len(calls) = 2) =>
        /\ out.exc = "none"
        /\ Size(path_losses) = BroadcastLength(args.couplings, args.velocities)

\* a scalar coupling validated and then spread over three velocities
C29_Witness ==
    /\ fn = "validateParameters, calc_ring_damping"
    /\ args = RingCall(Num(R(2)), List(<<R(1), R(2), R(0)>>))
    /\ Len(calls) = 2
    /\ calls[1].outcome = Returned(None)
    /\ out.exc = "none"
    /\ path_losses.v = <<R(2), R(1), PosInf>>

\* every element of every argument of the call is real
PumpAllReal ==
    \A name \in DOMAIN args :
        \A i \in 1..Size(PumpArg(name)) : PumpArg(name).v[i].im = R(0)

\* damping is 0 and wavevec * velocity is 0 at element i
ZeroAt(i) ==
    /\ Elem(PumpArg("ring_damping_pump"), i) = CZero
    /\ CMul(Elem(PumpArg("wavevec"), i), Elem(PumpArg("velocities_pump"), i)) = CZero

DampingPositive ==
    \A i \in 1..Size(PumpArg("ring_damping_pump")) :
        FLess(R(0), PumpArg("ring_damping_pump").v[i].re)

-----------------------------------------------------------------------------
(* CCqo101_FWM_detuning.validateParameters: the range checks.              *)

DetuningKeywords == <<"pump1", "pump2", "signal", "idler">>

\* kwargs.get(key): None for a keyword that was not passed
kwargs_get(kwargs, key) == IF key \in DOMAIN kwargs THEN kwargs[key] ELSE None

\* "Range check error:", "  Expected k >= 0", "  Received k = v"
DetuningRangeBlock(k, v) == [kind |-> "range", name |-> k, value |-> v]

\* the text one pass of the loop appends to eMsg
DetuningCheck(k, v) ==
    IF Truthy(v) /\ FLess(v.v, R(0)) THEN <<DetuningRangeBlock(k, v)>> ELSE <<>>

\* a validator that also rejects a parameter that is 0
validateDetuningParameters_ZeroRejected(kwargs) ==
    LET Check(k) == IF kwargs_get(kwargs, k) # None /\ ~FLess(R(0), kwargs_get(kwargs, k).v)
                    THEN <<DetuningRangeBlock(k, kwargs_get(kwargs, k))>> ELSE <<>>
        eMsg == Check("pump1") \o Check("pump2") \o Check("signal") \o Check("idler")
    IN  DetuningRaise([err |-> eMsg # <<>>, eMsg |-> eMsg, wrn |-> FALSE, wMsg |-> <<>>])

validateDetuningParameters(kwargs) ==
    LET Check(i) == DetuningCheck(DetuningKeywords[i], kwargs_get(kwargs, DetuningKeywords[i]))
        eMsg == Check(1) \o Check(2) \o Check(3) \o Check(4)
    IN  DetuningRaise([err |-> eMsg # <<>>, eMsg |-> eMsg, wrn |-> FALSE, wMsg |-> <<>>])

\* the values of one keyword: None or a frequency in -2..MaxFreq
DetuningValidateVals == {None} \cup {Num(R(x)) : x \in -2..MaxFreq}

\* any of the four keywords may be left out of the call
InitDetuningValidate ==
    /\ fn = "validateParameters(detuning)"
    /\ \E given \in SUBSET {"pump1", "pump2", "signal", "idler"} :
           args \in [given -> DetuningValidateVals]
    /\ out = Pending
    /\ NotRunning

CallDetuningValidate ==
    /\ fn = "validateParameters(detuning)"
    /\ out = Pending
    /\ out' = validateDetuningParameters(args)
    /\ UNCHANGED <<fn, args>>
    /\ UNCHANGED mainVars

NextDetuningValidate == CallDetuningValidate

SpecDetuningValidate == InitDetuningValidate /\ [][NextDetuningValidate]_vars

DetuningValidateDone == fn = "validateParameters(detuning)" /\ out # Pending

\* the keyword was passed with a number below zero
SuppliedNegative(k) ==
    /\ k \in DOMAIN args
    /\ args[k] # None
    /\ FLess(args[k].v, R(0))

\* the negative parameters in the order pump1, pump2, signal, idler
NegativeKeywords == SelectSeq(<<"pump1", "pump2", "signal", "idler">>, SuppliedNegative)

\* C25: the detuning validateParameters raises ValueError if and only if a
\* supplied pump1, pump2, signal or idler is negative; the message has one
\* range-check entry, with the name and the received value, for every
\* negative parameter and none for the others, in the order pump1, pump2,
\* signal, idler; an absent, None or zero parameter is never reported.
C25_NegativesReportedInOrder ==
    DetuningValidateDone =>
        /\ out.exc \in {"none", "ValueError"}
        /\ (out.exc = "ValueError") <=> (NegativeKeywords # <<>>)
        /\ out.exc = "ValueError" =>
              out.msg = [i \in 1..Len(NegativeKeywords) |->
                            [kind |-> "range", name |-> NegativeKeywords[i],
                             value |-> args[NegativeKeywords[i]]]]

\* pump1 absent, signal 0, pump2 and idler negative: two entries
C25_Witness ==
    /\ DetuningValidateDone
    /\ DOMAIN args = {"pump2", "signal", "idler"}
    /\ args.pump2 = Num(R(-1))
    /\ args.signal = Num(R(0))
    /\ args.idler = Num(R(-2))
    /\ out.exc = "ValueError"
    /\ Len(out.msg) = 2
    /\ out.msg[1].name = "pump2"
    /\ out.msg[2].name = "idler"

-----------------------------------------------------------------------------
(* CCID_template.calcID_template.  A result is f(k * pi), written          *)
(* [f, k]; f = "id" is the number k * pi itself, which is 0, inf, -inf     *)
(* and NaN for k = 0, inf, -inf and NaN.                                   *)

\* chgVar * np.pi
TimesPi(x) == [f |-> "id", k |-> x]

\* np.tan: NaN for an infinite or NaN argument, tan(0) = 0
np_tan(y) ==
    IF IsNaN(y.k) \/ IsInf(y.k) THEN TimesPi(NaN)
    ELSE IF y.k = R(0) THEN TimesPi(R(0))
    ELSE [f |-> "tan", k |-> y.k]

\* np.sin: NaN for an infinite or NaN argument, sin(0) = 0
np_sin(y) ==
    IF IsNaN(y.k) \/ IsInf(y.k) THEN TimesPi(NaN)
    ELSE IF y.k = R(0) THEN TimesPi(R(0))
    ELSE [f |-> "sin", k |-> y.k]

\* np.log: NaN for a negative or NaN argument, -inf at 0, inf at inf
np_log(y) ==
    IF IsNaN(y.k) \/ FLess(y.k, R(0)) THEN TimesPi(NaN)
    ELSE IF y.k = R(0) THEN TimesPi(NegInf)
    ELSE IF y.k = PosInf THEN TimesPi(PosInf)
    ELSE [f |-> "log", k |-> y.k]

Half == Norm(1, 2)

\* a calculator that takes the sine at 1/2 too
calcID_template_SineAtHalf(kwargs) ==
    IF "CHGTHISVAR" \notin DOMAIN kwargs THEN Raised("KeyError", <<"CHGTHISVAR">>)
    ELSE IF kwargs.CHGTHISVAR = None
         THEN Raised("TypeError", <<"unsupported operand type(s) for *">>)
    ELSE LET chgVar == kwargs.CHGTHISVAR.v
             intrmdB == TimesPi(chgVar)
             finC == IF FLess(Half, chgVar) THEN np_tan(intrmdB) ELSE np_sin(intrmdB)
         IN  Returned(<<finC, intrmdB>>)

calcID_template(kwargs) ==
    IF "CHGTHISVAR" \notin DOMAIN kwargs THEN Raised("KeyError", <<"CHGTHISVAR">>)
    ELSE IF kwargs.CHGTHISVAR = None
         THEN Raised("TypeError", <<"unsupported operand type(s) for *">>)
    ELSE LET chgVar == kwargs.CHGTHISVAR.v
             intrmdB == TimesPi(chgVar)
             finC == IF FLess(Half, chgVar) THEN np_tan(intrmdB)
                     ELSE IF FLess(chgVar, Half) THEN np_sin(intrmdB)
                     ELSE np_log(intrmdB)
         IN  Returned(<<finC, intrmdB>>)

\* the fractions of the calls: multiples of 1 / (2 * HalfSteps) on both
\* sides of 1/2, and the floats that are no real number
Fractions ==
    {Num(Norm(n, 2 * HalfSteps)) : n \in -MaxFraction..MaxFraction}
        \cup {Num(PosInf), Num(NegInf), Num(NaN)}

InitTemplate ==
    /\ fn = "calcID_template"
    /\ \/ args \in [{"CHGTHISVAR"} -> Fractions \cup {None}]
       \/ args \in [{"OTHER"} -> Fractions]
    /\ out = Pending
    /\ NotRunning

CallTemplate ==
    /\ fn = "calcID_template"
    /\ out = Pending
    /\ out' = calcID_template(args)
    /\ UNCHANGED <<fn, args>>
    /\ UNCHANGED mainVars

NextTemplate == CallTemplate

SpecTemplate == InitTemplate /\ [][NextTemplate]_vars

\* the call was made with a float as CHGTHISVAR
TemplateNumeric ==
    /\ fn = "calcID_template"
    /\ out # Pending
    /\ "CHGTHISVAR" \in DOMAIN args
    /\ args.CHGTHISVAR # None

\* how many of the conditions hold
Count(conditions) == Cardinality({i \in 1..Len(conditions) : conditions[i]})

\* the result follows the three cases of the fraction x
FollowsCases(x) ==
    /\ out.exc = "none"
    /\ Len(out.val) = 2
    /\ out.val[2] = TimesPi(x)
    /\ FLess(Half, x) => out.val[1] = np_tan(out.val[2])
    /\ FLess(x, Half) => out.val[1] = np_sin(out.val[2])
    /\ x = Half => out.val[1] = np_log(out.val[2])

C27_HalfKeepsPiece ==
    (TemplateNumeric /\ args.CHGTHISVAR.v = Half) =>
        /\ out.exc = "none"
        /\ out.val[1] = out.val[2]

-----------------------------------------------------------------------------
(* CCqo103_spectral_pump.getInputs.  A file is a sequence of rows, a row a *)
(* sequence of cells, a cell the text between two delimiters: digits (a    *)
(* decimal number) or any other word.                                      *)

Digits(x) == [t |-> "digits", v |-> R(x), w |-> ""]
Word(w) == [t |-> "word", v |-> R(0), w |-> w]

colHeadings == <<"wavevec", "couplings", "velocities", "damping", "pump_input">>

\* genfromtxt's conversion of a cell of a float column: the number, inf for
\* the word inf, nan for the word nan, for a missing entry and for any
\* other word
ToFloat(cell) ==
    IF cell.t = "digits" THEN cell.v
    ELSE IF cell.w = "inf" THEN PosInf
    ELSE NaN

\* NameValidator: a space in a name becomes an underscore
ReplaceSpace(w) == IF w = "pump input" THEN "pump_input" ELSE w

\* NameValidator: the second, third.. occurrence of a name gets _1, _2..
Renamed(names, i) ==
    LET cnt == Cardinality({j \in 1..(i - 1) : names[j] = names[i]})
    IN  IF cnt = 0 THEN names[i]
        ELSE names[i] \o <<"_0", "_1", "_2", "_3", "_4", "_5">>[cnt + 1]

validate_names(row) ==
    LET replaced == [i \in 1..Len(row) |-> ReplaceSpace(row[i].w)]
    IN  [i \in 1..Len(row) |-> Renamed(replaced, i)]

\* the structured array: one float field for each name, one record a row
genfromtxt(names, rows) ==
    [names |-> names,
     rows |-> [r \in 1..Len(rows) |-> [c \in 1..Len(names) |-> ToFloat(rows[r][c])]]]

\* np.delete(inArr, range(0, k), axis=0); an index past the end is ignored
np_delete(inArr, k) ==
    [inArr EXCEPT !.rows = SubSeq(inArr.rows, Min(k, Len(inArr.rows)) + 1, Len(inArr.rows))]

\* inArr[name]
Field(inArr, name) ==
    LET c == CHOOSE i \in 1..Len(inArr.names) : inArr.names[i] = name
    IN  [r \in 1..Len(inArr.rows) |-> inArr.rows[r][c]]

NameSet(names) == {names[i] : i \in 1..Len(names)}

HeadingsBlock(names) == [kind |-> "headings", received |-> names, expected |-> colHeadings]
InvalidBlock(inArr) == [kind |-> "invalid", received |-> inArr.rows, expected |-> <<>>]

\* NumPy builds differ in inArr.astype(float) for an array of records: the
\* first field of each record, or a TypeError
NumpyBuilds == {"first field", "TypeError"}

\* the statements after the array is read and its header rows are removed
AssignAndCheck(inArr, numpy) ==
    IF numpy = "TypeError" THEN Raised("TypeError", <<[kind |-> "cast", received |-> inArr.names, expected |-> <<>>]>>)
    ELSE IF \E r \in 1..Len(inArr.rows) : ~IsFinite(inArr.rows[r][1])
         THEN Raised("ValueError", <<InvalidBlock(inArr)>>)
    ELSE Returned([i \in 1..5 |-> Field(inArr, colHeadings[i])])

getInputs(infile, num_header_rows, numpy) ==
    IF num_header_rows < 0
    THEN Raised("UnboundLocalError", <<[kind |-> "unbound", received |-> <<"inArr">>, expected |-> <<>>]>>)
    ELSE IF num_header_rows = 0
    THEN AssignAndCheck(genfromtxt(colHeadings, infile), numpy)
    ELSE LET inArr == genfromtxt(validate_names(infile[1]), Tail(infile))
         IN  IF NameSet(colHeadings) # NameSet(inArr.names)
             THEN Raised("ValueError", <<HeadingsBlock(inArr.names)>>)
             ELSE IF num_header_rows > 1
             THEN AssignAndCheck(np_delete(inArr, num_header_rows - 1), numpy)
             ELSE AssignAndCheck(inArr, numpy)

\* first rows of the files: the five names in three orders, a foreign name,
\* a name written with a space, a repeated name, a missing name
NameRows ==
    { <<"wavevec", "couplings", "velocities", "damping", "pump_input">>,
      <<"pump_input", "damping", "velocities", "couplings", "wavevec">>,
      <<"couplings", "wavevec", "pump_input", "velocities", "damping">>,
      <<"wavevec", "couplings", "velocities", "loss", "pump_input">>,
      <<"wavevec", "couplings", "velocities", "damping", "pump input">>,
      <<"wavevec", "couplings", "velocities", "damping", "pump_input", "wavevec">>,
      <<"wavevec", "couplings", "velocities", "damping">> }

NameRow(names) == [c \in 1..Len(names) |-> Word(names[c])]
UnitRow(n) == [c \in 1..n |-> Word("unit")]
\* every entry of the data is a different number
DataRow(r, n) == [c \in 1..n |-> Digits(10 * r + c)]

\* words found where a number is expected: text, nothing, inf, nan
BadWords == {"abc", "", "inf", "nan"}

\* names, with or without a row of units, then rows of data
CleanFiles ==
    { <<NameRow(names)>> \o (IF units THEN <<UnitRow(Len(names))>> ELSE <<>>)
          \o [r \in 1..k |-> DataRow(r, Len(names))] :
        names \in NameRows, units \in BOOLEAN, k \in 2..MaxRows }

\* the same with one entry replaced by a word
SpoiltFiles ==
    UNION { { [f EXCEPT ![r][c] = Word(w)] :
                r \in (Len(f) - 1)..Len(f), c \in 1..Len(f[1]), w \in BadWords } :
            f \in CleanFiles }

InitGetInputs ==
    /\ fn = "getInputs"
    /\ args \in [infile : CleanFiles \cup SpoiltFiles,
                 num_header_rows : -1..MaxHeaderRows,
                 numpy : NumpyBuilds]
    /\ args.num_header_rows = 0 => Len(args.infile[1]) = 5
    /\ out = Pending
    /\ NotRunning

CallGetInputs ==
    /\ fn = "getInputs"
    /\ out = Pending
    /\ out' = getInputs(args.infile, args.num_header_rows, args.numpy)
    /\ UNCHANGED <<fn, args>>
    /\ UNCHANGED mainVars

NextGetInputs == CallGetInputs

SpecGetInputs == InitGetInputs /\ [][NextGetInputs]_vars

GetInputsDone == fn = "getInputs" /\ out # Pending

\* the names written in the first row of the file
FileNames == {args.infile[1][c].w : c \in 1..Len(args.infile[1])}

\* the rows of the file after its header rows
DataRows == SubSeq(args.infile, args.num_header_rows + 1, Len(args.infile))

\* the entries of the column of that name in the rows of data, as numbers
ColumnOf(name) ==
    LET c == CHOOSE i \in 1..Len(args.infile[1]) : args.infile[1][i].w = name
    IN  [r \in 1..Len(DataRows) |-> ToFloat(DataRows[r][c])]

\* C22: getInputs with num_header_rows >= 1 raises ValueError when the set
\* of names in the first row of the file differs from {wavevec, couplings,
\* velocities, damping, pump_input}; when it is that set, whatever the order
\* of the columns, the tuple returned is (wavevec, couplings, velocities,
\* damping, pump_input), each array taken from the column of its own name.
C22_NamesSelectColumns ==
    (GetInputsDone /\ args.num_header_rows >= 1) =>
        /\ FileNames # NameSet(colHeadings) => out.exc = "ValueError"
        /\ (FileNames = NameSet(colHeadings) /\ out.exc = "none") =>
              /\ Len(out.val) = 5
              /\ \A i \in 1..5 : out.val[i] = ColumnOf(colHeadings[i])

\* an entry of the rows of data is missing, NaN or infinite
SomeEntryInvalid ==
    \E r \in 1..Len(DataRows) : \E c \in 1..Len(DataRows[r]) : ~IsFinite(ToFloat(DataRows[r][c]))

\* C23: getInputs with num_header_rows = n >= 1 takes the first row as the
\* names and drops the next n - 1 rows before it checks the values; then a
\* missing or non-finite entry in a remaining row raises ValueError, and
\* otherwise all remaining rows are returned in the order of the file.
C23_HeaderRowsDroppedThenChecked ==
    (GetInputsDone /\ args.num_header_rows >= 1 /\ FileNames = NameSet(colHeadings)
        /\ Len(args.infile[1]) = 5) =>
        /\ SomeEntryInvalid => out.exc = "ValueError"
        /\ ~SomeEntryInvalid =>
              /\ out.exc = "none"
              /\ \A i \in 1..5 : out.val[i] = ColumnOf(colHeadings[i])

====
